---------------------------- MODULE Spec2Model ----------------------------
(***************************************************************************)
(* Model of spotiseek: the file-matching core (package utils: the text     *)
(* normalizer, the query builder, the MP3 filter, the match scorer and the *)
(* best-match selector), the concurrent part of the worker's               *)
(* checkForNewTracks, and the slskd client's SearchAndDownload.            *)
(*                                                                         *)
(* Strings are sequences of Unicode code points (a Go string ranged over   *)
(* as runes).  A float64 score is kept as an exact fraction num/den with   *)
(* den = 100 * |queryWords|, so that 0.2, 0.1, 0.02 and 0.15 are exact.    *)
(*                                                                         *)
(* Spec       one call of a function of the core, its arguments drawn from *)
(*            bounded input sets; the core keeps no state between calls.   *)
(* SpecRepeat FindBestMatch called twice with the same arguments.          *)
(* SpecWorker the goroutines of one checkForNewTracks call.                *)
(* SpecClient one processTrack call: query, search, poll, fetch, match,    *)
(*            download.                                                    *)
(* SpecConnect one WaitForConnection call.                                 *)
(* SpecWorkerFair SpecWorker with a fair scheduler.                        *)
(* SpecMonitor the monitoring loop of Start: ticks, checkForNewTracks with *)
(*            lastCheck, and tracks added to the playlist meanwhile, under *)
(*            a fair scheduler.                                            *)
(***************************************************************************)
EXTENDS Integers, Sequences, FiniteSets, TLC

VARIABLES
    pc,           \* "call" before the function runs, "done" once it has returned
    op,           \* the function called
    input,        \* TransliterateToASCII / NormalizeString: the argument
    query,        \* CalculateMatchScore / FindBestMatch: the query argument
    filename,     \* CalculateMatchScore / extractRelevantFilename: the filename argument
    results,      \* FindBestMatch / FilterMP3Files: the results argument
    track,        \* CreateSearchQuery: the track argument
    scores,       \* FindBestMatch: the scores slice after sort.Slice
    scorerCalls,  \* number of CalculateMatchScore invocations of the last call
    logged,       \* the lines the last call wrote with log.Printf
    fault,        \* TRUE when the last call ended in a run-time panic
    ret,          \* the value returned by the last call
    earlier,      \* repeated call: what the first call returned, ranked and logged
    sortFn,       \* repeated call: the <<input, output>> pairs of sort.Slice so far
    newTracks,    \* checkForNewTracks: the number of new tracks fetched
    wpc,          \* checkForNewTracks: "spawn" in the loop, "wait" in wg.Wait, "returned"
    spawned,      \* checkForNewTracks: the number of goroutines started
    gpc,          \* per goroutine: "acquire", "process", "release", "wgDone", "exit"
    semaphore,    \* the number of elements in the semaphore channel
    wg,           \* the counter of the WaitGroup
    cpc,          \* processTrack / SearchAndDownload: the step to take next
    elapsed,      \* WaitForSearchComplete: seconds since the deadline was set
    status,       \* WaitForSearchComplete: the search status polled last
    requests,     \* the HTTP requests handed to the slskd service, in order
    matcherCalls, \* SearchAndDownload: the number of matchFunc invocations
    err,          \* SearchAndDownload: the error returned ("" for nil)
    calls,        \* worker: per goroutine, the number of processTrack calls it made
    perr,         \* worker: per goroutine, what its processTrack call returned
    kpc,          \* WaitForConnection: position
    maxAttempts,  \* WaitForConnection: the argument
    attempt,      \* WaitForConnection: the round counter
    backoff,      \* WaitForConnection: the next wait, in seconds
    endpointIx,   \* WaitForConnection: index of the endpoint tried last
    slept,        \* WaitForConnection: the waits made so far, in seconds
    connErr,      \* WaitForConnection: "" while running, then "nil" or the error
    answer,       \* WaitForConnection: the outcome of the last request
    tried,        \* WaitForConnection: the number of requests made
    mpc,          \* monitoring loop: position of Start and checkForNewTracks
    clock,        \* monitoring loop: the time
    playlist,     \* monitoring loop: the playlist items, with their AddedAt
    lastCheck,    \* monitoring loop: w.lastCheck
    since,        \* monitoring loop: checkForNewTracks' local copy of lastCheck
    batch,        \* monitoring loop: the tracks GetNewTracks returned
    history,      \* monitoring loop: the processTrack calls of earlier checks
    checkErr      \* monitoring loop: what the last checkForNewTracks returned

coreVars ==
    <<pc, op, input, query, filename, results, track, scores, scorerCalls, logged, fault, ret>>

repeatVars == <<earlier, sortFn>>

workerVars == <<newTracks, wpc, spawned, gpc, semaphore, wg, calls, perr>>

clientVars == <<cpc, elapsed, status, requests, matcherCalls, err>>

connectVars ==
    <<kpc, maxAttempts, attempt, backoff, endpointIx, slept, connErr, answer, tried>>

monitorVars == <<mpc, clock, playlist, lastCheck, since, batch, history, checkErr>>

vars == <<coreVars, repeatVars, workerVars, clientVars, connectVars, monitorVars>>

\* The nil pointer FindBestMatch returns for "no match".
Nil == [nil |-> TRUE]

-----------------------------------------------------------------------------
(* Bounds of the input sets.                                               *)

MaxStrLen == 3      \* longest generated argument of the string functions
MaxWords == 3       \* most words of a generated file name (before the extension)
MaxQueryWords == 2  \* most words of a generated query
MaxArtists == 2     \* most artists of a generated track
MaxResults == 3     \* longest generated results slice

-----------------------------------------------------------------------------
(* Characters.                                                             *)

\* strings.ToLower on one rune: ASCII letters, and the Latin-1 capitals.
ToLowerRune(r) ==
    IF r \in 65..90 THEN r + 32
    ELSE IF r \in (192..222) \ {215} THEN r + 32
    ELSE IF r = 376 THEN 255
    ELSE IF r = 321 THEN 322
    ELSE IF r = 379 THEN 380
    ELSE r

ToLower(s) == [i \in 1..Len(s) |-> ToLowerRune(s[i])]

\* RE2's \s is [\t\n\f\r ] (no vertical tab).
IsReSpace(r) == r \in {9, 10, 12, 13, 32}

\* unicode.IsSpace, as strings.TrimSpace and strings.Fields use it.
IsSpace(r) == r \in {9, 10, 11, 12, 13, 32, 133, 160}

\* The character class [a-z0-9].
IsLowerAlnum(r) == r \in (97..122) \cup (48..57)

\* unicode.Is(unicode.Mn, r) for the combining marks that occur in the
\* decompositions below.
IsMn(r) == r \in 768..879

\* norm.NFD.String(string(r)): the canonical decomposition of one rune, for
\* the runes of the input alphabet (Unicode character database).  Runes with
\* no canonical decomposition (among them U+0142, l with stroke, and U+0141)
\* decompose to themselves.
NFD(r) ==
    CASE r = 380 -> <<122, 775>>       \* z with dot above
      [] r = 379 -> <<90, 775>>        \* Z with dot above
      [] r = 351 -> <<115, 807>>       \* s with cedilla
      [] r = 470 -> <<117, 776, 772>>  \* u with diaeresis and macron
      [] r = 8800 -> <<61, 824>>       \* not equal to
      [] OTHER -> <<r>>

-----------------------------------------------------------------------------
(* TransliterateToASCII.                                                   *)

charMappings ==
    248 :> <<111>> @@ 216 :> <<79>> @@
    230 :> <<97, 101>> @@ 198 :> <<65, 69>> @@
    229 :> <<97>> @@ 197 :> <<65>> @@
    252 :> <<117>> @@ 220 :> <<85>> @@
    246 :> <<111>> @@ 214 :> <<79>> @@
    228 :> <<97>> @@ 196 :> <<65>> @@
    241 :> <<110>> @@ 209 :> <<78>> @@
    231 :> <<99>> @@ 199 :> <<67>> @@
    233 :> <<101>> @@ 201 :> <<69>> @@
    232 :> <<101>> @@ 200 :> <<69>> @@
    234 :> <<101>> @@ 202 :> <<69>> @@
    235 :> <<101>> @@ 203 :> <<69>> @@
    225 :> <<97>> @@ 193 :> <<65>> @@
    224 :> <<97>> @@ 192 :> <<65>> @@
    226 :> <<97>> @@ 194 :> <<65>> @@
    227 :> <<97>> @@ 195 :> <<65>> @@
    237 :> <<105>> @@ 205 :> <<73>> @@
    236 :> <<105>> @@ 204 :> <<73>> @@
    238 :> <<105>> @@ 206 :> <<73>> @@
    239 :> <<105>> @@ 207 :> <<73>> @@
    243 :> <<111>> @@ 211 :> <<79>> @@
    242 :> <<111>> @@ 210 :> <<79>> @@
    244 :> <<111>> @@ 212 :> <<79>> @@
    245 :> <<111>> @@ 213 :> <<79>> @@
    250 :> <<117>> @@ 218 :> <<85>> @@
    249 :> <<117>> @@ 217 :> <<85>> @@
    251 :> <<117>> @@ 219 :> <<85>> @@
    255 :> <<121>> @@ 376 :> <<89>> @@
    253 :> <<121>> @@ 221 :> <<89>>

\* The inner loop over the decomposed rune: the first rune that is not a
\* combining mark and is ASCII, or nothing.
RECURSIVE FirstBase(_)
FirstBase(d) ==
    IF d = <<>> THEN <<>>
    ELSE IF ~IsMn(Head(d)) /\ Head(d) <= 127 THEN <<Head(d)>>
    ELSE FirstBase(Tail(d))

\* A loop body whose table holds lower-case letters only.
TransliterateRune_lower(r) ==
    IF r \in DOMAIN charMappings THEN ToLower(charMappings[r])
    ELSE IF r <= 127 THEN <<r>>
    ELSE FirstBase(NFD(r))

\* What the loop body writes to the builder for one rune.
TransliterateRune(r) ==
    IF r \in DOMAIN charMappings THEN charMappings[r]
    ELSE IF r <= 127 THEN <<r>>
    ELSE FirstBase(NFD(r))

RECURSIVE TransliterateToASCII(_)
TransliterateToASCII(s) ==
    IF s = <<>> THEN <<>>
    ELSE TransliterateRune(Head(s)) \o TransliterateToASCII(Tail(s))

-----------------------------------------------------------------------------
(* NormalizeString.                                                        *)

\* reg.ReplaceAllString(result, " ") with reg = [^a-z0-9\s].
\* A replacement that leaves the dot in place.
ReplaceNonAlnum_keepDot(s) ==
    [i \in 1..Len(s) |->
        IF IsLowerAlnum(s[i]) \/ IsReSpace(s[i]) \/ s[i] = 46 THEN s[i] ELSE 32]

ReplaceNonAlnum(s) ==
    [i \in 1..Len(s) |-> IF IsLowerAlnum(s[i]) \/ IsReSpace(s[i]) THEN s[i] ELSE 32]

\* spaceReg.ReplaceAllString(result, " ") with spaceReg = \s+ : every maximal
\* run of \s characters becomes one space.
RECURSIVE CollapseSpaces(_)
CollapseSpaces(s) ==
    IF s = <<>> THEN <<>>
    ELSE IF IsReSpace(Head(s))
         THEN IF Len(s) >= 2 /\ IsReSpace(s[2])
              THEN CollapseSpaces(Tail(s))
              ELSE <<32>> \o CollapseSpaces(Tail(s))
         ELSE <<Head(s)>> \o CollapseSpaces(Tail(s))

\* strings.TrimSpace.
RECURSIVE TrimLeft(_)
TrimLeft(s) ==
    IF s # <<>> /\ IsSpace(Head(s)) THEN TrimLeft(Tail(s)) ELSE s

RECURSIVE TrimRight(_)
TrimRight(s) ==
    IF s # <<>> /\ IsSpace(s[Len(s)]) THEN TrimRight(SubSeq(s, 1, Len(s) - 1)) ELSE s

\* A trim of the leading white space only.
TrimSpace_leftOnly(s) == TrimLeft(s)

TrimSpace(s) == TrimRight(TrimLeft(s))

\* A normalizer that trims before it replaces and collapses.
NormalizeString_trimFirst(s) ==
    CollapseSpaces(ReplaceNonAlnum(TrimSpace(ToLower(TransliterateToASCII(s)))))

NormalizeString(s) ==
    TrimSpace(CollapseSpaces(ReplaceNonAlnum(ToLower(TransliterateToASCII(s)))))

-----------------------------------------------------------------------------
(* String helpers of the Go library, as the scorer uses them.              *)

\* strings.Fields: the maximal runs of non-space runes.
RECURSIVE TakeWord(_)
TakeWord(s) ==
    IF s = <<>> \/ IsSpace(Head(s)) THEN <<>> ELSE <<Head(s)>> \o TakeWord(Tail(s))

RECURSIVE Fields(_)
Fields(s) ==
    IF s = <<>> THEN <<>>
    ELSE IF IsSpace(Head(s)) THEN Fields(Tail(s))
    ELSE LET w == TakeWord(s)
         IN  <<w>> \o Fields(SubSeq(s, Len(w) + 1, Len(s)))

\* strings.Split(s, sep) for a one-rune separator.
RECURSIVE Split(_, _)
Split(s, sep) ==
    IF \E i \in 1..Len(s) : s[i] = sep
    THEN LET i == CHOOSE k \in 1..Len(s) :
                      s[k] = sep /\ \A m \in 1..(k - 1) : s[m] # sep
         IN  <<SubSeq(s, 1, i - 1)>> \o Split(SubSeq(s, i + 1, Len(s)), sep)
    ELSE <<s>>

\* strings.Join(words, " ").
RECURSIVE Join(_)
Join(words) ==
    IF words = <<>> THEN <<>>
    ELSE IF Len(words) = 1 THEN words[1]
    ELSE words[1] \o <<32>> \o Join(Tail(words))

\* strings.Contains(s, sub).
Contains(s, sub) ==
    \E i \in 0..(Len(s) - Len(sub)) : SubSeq(s, i + 1, i + Len(sub)) = sub

\* A query built with the track name ahead of the artist names.
CreateSearchQuery_titleFirst(t) ==
    NormalizeString(Join(<<t.Name>> \o [i \in 1..Len(t.Artists) |-> t.Artists[i].Name]))

\* CreateSearchQuery: the artist names in order, then the track name, joined
\* by a space and normalized.
CreateSearchQuery(t) ==
    LET parts == [i \in 1..Len(t.Artists) |-> t.Artists[i].Name] \o <<t.Name>>
    IN  NormalizeString(Join(parts))

-----------------------------------------------------------------------------
(* extractRelevantFilename and CalculateMatchScore.                        *)

\* The text after the last slash alone.
extractRelevantFilename_lastOnly(f) ==
    LET parts == Split(f, 47) IN parts[Len(parts)]

extractRelevantFilename(f) ==
    LET parts == Split(f, 47)
        actualFilename == parts[Len(parts)]
    IN  IF Len(parts) >= 2
        THEN parts[Len(parts) - 1] \o <<32>> \o actualFilename
        ELSE actualFilename

Str_original == <<111, 114, 105, 103, 105, 110, 97, 108>>  \* "original"
Str_original_mix == <<111, 114, 105, 103, 105, 110, 97, 108, 32, 109, 105, 120>>  \* "original mix"
Str_original_version == <<111, 114, 105, 103, 105, 110, 97, 108, 32, 118, 101, 114, 115, 105, 111, 110>>  \* "original version"

originalTerms == <<Str_original, Str_original_mix, Str_original_version>>

\* The bonuses and the penalty step, in hundredths.
SequenceBonusPct == 20
OriginalBonusPct == 10
ExtraWordPenaltyPct == 2
ExtraWordsAllowed == 3

\* A score is the fraction num/den; den > 0.
ScoreGreater(a, b) == a.num * b.den > b.num * a.den
ScoreEqual(a, b) == a.num * b.den = b.num * a.den

\* A count of the different words of filenameWords found in queryWordSet.
CountMatching_distinct(filenameWords, queryWordSet) ==
    Cardinality({filenameWords[i] : i \in 1..Len(filenameWords)} \cap queryWordSet)

\* The number of elements of filenameWords found in queryWordSet.
RECURSIVE CountMatching(_, _)
CountMatching(filenameWords, queryWordSet) ==
    IF filenameWords = <<>> THEN 0
    ELSE (IF Head(filenameWords) \in queryWordSet THEN 1 ELSE 0)
             + CountMatching(Tail(filenameWords), queryWordSet)

\* A final score that is never clamped.
Clamp_none(num, den) == num

\* finalScore clamped to [0, 1]: the numerator over den.
Clamp(num, den) == IF num > den THEN den ELSE IF num < 0 THEN 0 ELSE num

\* A penalty charged for every word beyond or below the allowance.
ExtraWordsPenalty_unguarded(extraWords, n) ==
    (extraWords - ExtraWordsAllowed) * ExtraWordPenaltyPct * n

\* extraWordsPenalty, over 100 * n: 0.02 for every extra word beyond three.
ExtraWordsPenalty(extraWords, n) ==
    IF extraWords > ExtraWordsAllowed
    THEN (extraWords - ExtraWordsAllowed) * ExtraWordPenaltyPct * n ELSE 0

\* The results of the two early returns.
EmptyQueryScore(f) ==
    [Score |-> [num |-> 0, den |-> 100], Filename |-> f, Reason |-> <<"empty query">>]

ExactMatchScore(f) ==
    [Score |-> [num |-> 100, den |-> 100], Filename |-> f, Reason |-> <<"exact match">>]

\* The word-counting part of CalculateMatchScore, for a non-empty query that
\* is no exact match.  Reason holds the values the format string prints.
WordScore(f, normalizedQuery, normalizedFilename) ==
    LET queryWords == Fields(normalizedQuery)
        filenameWords == Fields(normalizedFilename)
        n == Len(queryWords)
        den == 100 * n
        queryWordSet == {queryWords[i] : i \in 1..n}
        matchingWords == CountMatching(filenameWords, queryWordSet)
        baseScore == 100 * matchingWords                  \* over den
        sequenceBonus ==
            IF matchingWords > 1 /\ Contains(normalizedFilename, Join(queryWords))
            THEN SequenceBonusPct * n ELSE 0
        originalBonus ==
            IF \E k \in 1..Len(originalTerms) : Contains(normalizedFilename, originalTerms[k])
            THEN OriginalBonusPct * n ELSE 0
        extraWords == Len(filenameWords) - matchingWords
        extraWordsPenalty == ExtraWordsPenalty(extraWords, n)
        finalScore == baseScore + sequenceBonus + originalBonus - extraWordsPenalty
    IN  [Score |-> [num |-> Clamp(finalScore, den), den |-> den], Filename |-> f,
         Reason |-> <<"base", baseScore, sequenceBonus, originalBonus,
                      extraWordsPenalty, matchingWords, n>>]

\* A scorer that tests for the exact match before the empty query.
CalculateMatchScore_exactFirst(q, f) ==
    LET normalizedQuery == NormalizeString(q)
        normalizedFilename == NormalizeString(extractRelevantFilename(f))
    IN  IF normalizedQuery = normalizedFilename THEN ExactMatchScore(f)
        ELSE IF Len(Fields(normalizedQuery)) = 0 THEN EmptyQueryScore(f)
        ELSE WordScore(f, normalizedQuery, normalizedFilename)

\* A scorer without the exact-match early return.
CalculateMatchScore_noShortcut(q, f) ==
    LET normalizedQuery == NormalizeString(q)
        normalizedFilename == NormalizeString(extractRelevantFilename(f))
    IN  IF Len(Fields(normalizedQuery)) = 0 THEN EmptyQueryScore(f)
        ELSE WordScore(f, normalizedQuery, normalizedFilename)

CalculateMatchScore(q, f) ==
    LET normalizedQuery == NormalizeString(q)
        relevantFilename == extractRelevantFilename(f)
        normalizedFilename == NormalizeString(relevantFilename)
        queryWords == Fields(normalizedQuery)
    IN  IF Len(queryWords) = 0 THEN EmptyQueryScore(f)
        ELSE IF normalizedQuery = normalizedFilename THEN ExactMatchScore(f)
        ELSE WordScore(f, normalizedQuery, normalizedFilename)

-----------------------------------------------------------------------------
(* FilterMP3Files.                                                         *)

Ext_mp3 == <<46, 109, 112, 51>>  \* ".mp3"

\* filepath.Ext: the suffix beginning at the final dot of the final
\* slash-separated element of the path; empty if there is no dot.
RECURSIVE ExtFrom(_, _)
ExtFrom(path, i) ==
    IF i < 1 \/ path[i] = 47 THEN <<>>
    ELSE IF path[i] = 46 THEN SubSeq(path, i, Len(path))
    ELSE ExtFrom(path, i - 1)

Ext(path) == ExtFrom(path, Len(path))

\* A filter that keeps every file that has an extension.
IsMP3_anyExt(result) == Ext(result.Filename) # <<>>

\* A filter that compares the extension without lowering it.
IsMP3_caseSensitive(result) == Ext(result.Filename) = Ext_mp3

IsMP3(result) == ToLower(Ext(result.Filename)) = Ext_mp3

FilterMP3Files(rs) == SelectSeq(rs, IsMP3)

-----------------------------------------------------------------------------
(* FindBestMatch.                                                          *)

\* The threshold 0.15, in hundredths.
ThresholdPct == 15

\* A less function that sorts ascending.
Less_ascending(a, b) == ScoreGreater(b.Score, a.Score)

\* The less function handed to sort.Slice.
Less(a, b) == ScoreGreater(a.Score, b.Score)

\* sort.Slice runs an insertion sort on slices of at most 12 elements, and
\* pattern-defeating quicksort above that (package sort: "The sort is not
\* guaranteed to be stable").
maxInsertion == 12

Swap(data, i, j) == [data EXCEPT ![i] = data[j], ![j] = data[i]]

RECURSIVE Sink(_, _)
Sink(data, j) ==
    IF j > 1 /\ Less(data[j], data[j - 1]) THEN Sink(Swap(data, j, j - 1), j - 1) ELSE data

RECURSIVE InsertionSortFrom(_, _)
InsertionSortFrom(data, i) ==
    IF i > Len(data) THEN data ELSE InsertionSortFrom(Sink(data, i), i + 1)

\* Every arrangement of the elements at the indices in S that no Less pair
\* contradicts: elements that compare equal come in any order.
RECURSIVE SortedOrders(_, _)
SortedOrders(data, S) ==
    IF S = {} THEN {<<>>}
    ELSE LET top == {i \in S : \A j \in S : ~Less(data[j], data[i])}
         IN  UNION {{<<data[i]>> \o rest : rest \in SortedOrders(data, S \ {i})} : i \in top}

\* The outcomes of sort.Slice(scores, less).
SortSlice(data) ==
    IF Len(data) <= maxInsertion
    THEN {InsertionSortFrom(data, 2)}
    ELSE SortedOrders(data, 1..Len(data))

\* The loop that resolves the best score back to a result: the first MP3
\* result whose Filename is that of scores[0]; nil if there is none.
RECURSIVE FindResult(_, _)
FindResult(mp3Results, name) ==
    IF mp3Results = <<>> THEN Nil
    ELSE IF Head(mp3Results).Filename = name THEN Head(mp3Results)
    ELSE FindResult(Tail(mp3Results), name)

\* A gate at one tenth.
AtLeastThreshold_tenth(score) == score.num * 10 >= score.den

\* A gate that wants the score to exceed the threshold.
AtLeastThreshold_strict(score) == score.num * 100 > ThresholdPct * score.den

AtLeastThreshold(score) == score.num * 100 >= ThresholdPct * score.den

\* The scores slice before sorting: one CalculateMatchScore per MP3 result.
ScoreAll(q, mp3Results) ==
    [i \in 1..Len(mp3Results) |-> CalculateMatchScore(q, mp3Results[i].Filename)]

\* What FindBestMatch returns, given the sorted scores.
SelectBest(mp3Results, sorted) ==
    IF Len(sorted) > 0 /\ AtLeastThreshold(sorted[1].Score)
    THEN FindResult(mp3Results, sorted[1].Filename)
    ELSE Nil

\* The number of ranked scores FindBestMatch logs.
maxToLog == 5

Min(a, b) == IF a < b THEN a ELSE b

\* The "Score" lines logged for the top of the ranking.
TopLog(sorted) ==
    [i \in 1..Min(maxToLog, Len(sorted)) |->
        <<"Score", i, sorted[i].Score, sorted[i].Filename, sorted[i].Reason>>]

\* A last line that prints the lowest score of the ranking.
NoMatchLog_last(sorted) == <<"No suitable match found", sorted[Len(sorted)].Score>>

\* The line logged when no score reaches the threshold: it prints scores[0].
NoMatchLog(sorted) == <<"No suitable match found", sorted[1].Score>>

\* The rest of FindBestMatch once the MP3 results are scored and sorted: the
\* value returned, the lines logged, and whether an index expression went
\* out of range (extractRelevantFilename reads the last element of its
\* parts, the last log line reads scores[0]).
Decide(q, rs, mp3Results, sorted) ==
    LET best == SelectBest(mp3Results, sorted)
        analysis == << <<"Filtering", Len(rs), Len(mp3Results)>>, <<"Match analysis", q>> >>
                        \o TopLog(sorted)
        out == [scores |-> sorted, scorerCalls |-> Len(mp3Results)]
    IN  IF \E i \in 1..Len(mp3Results) : Len(Split(mp3Results[i].Filename, 47)) = 0
        THEN out @@ [ret |-> Nil, logged |-> <<>>, fault |-> TRUE]
        ELSE IF best # Nil
        THEN out @@ [ret |-> best,
                     logged |-> analysis \o << <<"Selected best match", best.Filename, sorted[1].Score>> >>,
                     fault |-> FALSE]
        ELSE IF Len(sorted) = 0
        THEN out @@ [ret |-> Nil, logged |-> analysis, fault |-> TRUE]
        ELSE out @@ [ret |-> Nil, logged |-> analysis \o <<NoMatchLog(sorted)>>, fault |-> FALSE]

\* A FindBestMatch that goes on to score and rank an empty MP3 list.
FindBestMatch_noEarlyReturn(q, rs) ==
    {Decide(q, rs, FilterMP3Files(rs), sorted) :
        sorted \in SortSlice(ScoreAll(q, FilterMP3Files(rs)))}

\* The outcomes of one FindBestMatch call: the value returned, the sorted
\* scores, the number of CalculateMatchScore calls made, the lines logged
\* and whether the call panicked.
FindBestMatch(q, rs) ==
    LET mp3Results == FilterMP3Files(rs)
    IN  IF Len(mp3Results) = 0
        THEN {[ret |-> Nil, scores |-> <<>>, scorerCalls |-> 0,
               logged |-> << <<"No MP3 files found", Len(rs)>> >>, fault |-> FALSE]}
        ELSE {Decide(q, rs, mp3Results, sorted) :
                 sorted \in SortSlice(ScoreAll(q, mp3Results))}

\* A sort that may order equal scores anew in every call.
SortAgrees_fresh(known, data, sorted) == TRUE

\* sort.Slice draws its pivots from its argument alone (the generator of
\* pdqsort is seeded with the length), so within one build it is a function:
\* an input sorted before comes out as it did then.  known holds the
\* <<input, output>> pairs seen so far.
SortAgrees(known, data, sorted) ==
    \A p \in known : p[1] = data => p[2] = sorted

\* The outcomes of a FindBestMatch call in a build whose sort.Slice has
\* shown the pairs in known, each with the pairs known after the call.
FindBestMatchBy(known, q, rs) ==
    LET mp3Results == FilterMP3Files(rs)
        data == ScoreAll(q, mp3Results)
    IN  IF Len(mp3Results) = 0
        THEN {out @@ [sortFn |-> known] : out \in FindBestMatch(q, rs)}
        ELSE {out @@ [sortFn |-> known \cup {<<data, out.scores>>}] :
                 out \in {o \in FindBestMatch(q, rs) : SortAgrees(known, data, o.scores)}}

-----------------------------------------------------------------------------
(* Input strings.                                                          *)

Str_BlazejPL == <<66, 322, 97, 380, 101, 106, 32, 77, 97, 108, 105, 110, 111, 119, 115, 107, 105>>  \* "Blazej Malinowski" spelt with U+0142 and U+017C
Str_BlazejASCII == <<66, 108, 97, 122, 101, 106, 32, 77, 97, 108, 105, 110, 111, 119, 115, 107, 105>>  \* "Blazej Malinowski"
Str_Rodhad == <<82, 248, 100, 104, 229, 100>>  \* "Rodhad" spelt with U+00F8 and U+00E5
Str_rodhad == <<114, 111, 100, 104, 97, 100>>  \* "rodhad"

\* a B 3 space tab - o-with-stroke z-with-dot l-with-stroke
Alphabet == {97, 66, 51, 32, 9, 45, 248, 380, 322}

SeqsUpTo(S, n) == UNION {[1..k -> S] : k \in 0..n}

InputStrings ==
    SeqsUpTo(Alphabet, MaxStrLen)
        \cup {<<r>> : r \in DOMAIN charMappings}
        \cup {<<r>> : r \in {379, 351, 470, 8800, 1103, 11, 65533}}
        \cup {Str_BlazejPL, Str_BlazejASCII, Str_Rodhad, Str_rodhad}

\* Words, as file names and queries are built from them.
Word_a == <<97>>
Word_b == <<98>>
Word_x == <<120>>

\* words joined by the rune sep.
RECURSIVE JoinWith(_, _)
JoinWith(words, sep) ==
    IF words = <<>> THEN <<>>
    ELSE IF Len(words) = 1 THEN words[1]
    ELSE words[1] \o <<sep>> \o JoinWith(Tail(words), sep)

Ext_MP3 == <<46, 77, 80, 51>>   \* ".MP3"
Ext_wav == <<46, 119, 97, 118>> \* ".wav"

\* k copies of " x".
RECURSIVE Xs(_)
Xs(k) == IF k = 0 THEN <<>> ELSE <<32>> \o Word_x \o Xs(k - 1)

File_a_b == <<97, 32, 98>> \o Ext_mp3                  \* "a b.mp3"
File_b_a == <<98, 32, 97>> \o Ext_mp3                  \* "b a.mp3"
File_a_b_wav == <<97, 32, 98>> \o Ext_wav              \* "a b.wav"
File_a_x_MP3 == <<97, 32, 120>> \o Ext_MP3             \* "a x.MP3"
File_original == Str_original \o Ext_mp3               \* "original.mp3"
File_a_original_mix == <<97, 32>> \o Str_original_mix \o Ext_mp3  \* "a original mix.mp3"
File_dir_mp3 == <<97, 46, 109, 112, 51, 47, 98>>       \* "a.mp3/b"
File_dashes == <<45, 45>>                              \* "--"
File_a_a_a == <<97, 32, 97, 32, 97>> \o Ext_mp3        \* "a a a.mp3"
File_4x == Word_x \o Xs(3) \o Ext_mp3                  \* "x x x x.mp3"
File_a7x == Word_a \o Xs(7) \o Ext_mp3                 \* "a x x x x x x x.mp3"
File_a8x == Word_a \o Xs(8) \o Ext_mp3                 \* "a x x x x x x x x.mp3"

\* Generated file names: up to MaxWords words joined by a space or a slash,
\* with one of the extensions or none.
Filenames ==
    {JoinWith(ws, sep) \o ext :
        ws \in SeqsUpTo({Word_a, Word_b, Word_x}, MaxWords),
        sep \in {32, 47},
        ext \in {Ext_mp3, Ext_MP3, Ext_wav, <<>>}}
    \cup {File_original, File_a_original_mix, File_dir_mp3, File_dashes,
          File_a_a_a, File_4x, File_a7x, File_a8x}

Query_a_b_c_d == <<97, 32, 98, 32, 99, 32, 100>>   \* "a b c d"
Query_a_b_mp3 == <<97, 32, 98, 32, 109, 112, 51>>  \* "a b mp3"
Query_A_B == <<65, 32, 32, 66>>                    \* "A  B"
Query_dash == <<45>>                               \* "-"

Queries ==
    {JoinWith(ws, 32) : ws \in SeqsUpTo({Word_a, Word_b}, MaxQueryWords)}
    \cup {Query_a_b_c_d, Query_a_b_mp3, Query_A_B, Query_dash}

\* Search results.  Speed and Quality are carried along untouched and play
\* no part in the selection, so a result is modelled by its other fields.
Result(u, f, sz) == [Username |-> u, Filename |-> f, Size |-> sz]

Candidates ==
    {Result("u1", File_a_b, 10), Result("u2", File_a_b, 20),
     Result("u1", File_b_a, 30), Result("u1", File_a_b_wav, 40),
     Result("u2", File_a_x_MP3, 50), Result("u1", File_original, 60),
     Result("u2", File_a7x, 70), Result("u2", File_a_a_a, 80),
     Result("u1", File_4x, 90)}

\* Filler k scores 0.5 - 0.02k against the query "a b": "a" and k+2 times
\* "x", plus the extension.
Filler(k) == Result("u3", Word_a \o Xs(k + 2) \o Ext_mp3, 100 + k)

\* Thirteen MP3 results: two that tie on the best score against "a b", the
\* first at index 0 and the second at index 6, and eleven of distinct lower
\* scores.
LongResults ==
    <<Result("u1", File_a_b, 10)>>
        \o [k \in 1..5 |-> Filler(k)]
        \o <<Result("u1", File_b_a, 30)>>
        \o [k \in 1..6 |-> Filler(k + 5)]

\* The query, the file and the track of the documented search example.
Query_timelapse ==
    <<97, 108, 97, 115, 116, 111, 114, 32, 106, 101, 114, 111, 109, 101, 32, 105, 115, 109, 97, 32, 97, 101, 32, 116, 105, 109, 101, 108, 97, 112, 115, 101, 32, 109, 97, 114, 99, 32, 100, 101, 32, 112, 117, 108, 115, 101, 32, 101, 120, 116, 101, 110, 100, 101, 100, 32, 114, 101, 109, 105, 120>>
File_timelapse ==
    <<65, 108, 97, 115, 116, 111, 114, 44, 32, 74, 101, 114, 111, 109, 101, 32, 73, 115, 109, 97, 45, 65, 101, 32, 45, 32, 84, 105, 109, 101, 108, 97, 112, 115, 101, 32, 40, 77, 97, 114, 99, 32, 68, 101, 80, 117, 108, 115, 101, 32, 69, 120, 116, 101, 110, 100, 101, 100, 32, 82, 101, 109, 105, 120, 41, 46, 109, 112, 51>>
Str_Alastor == <<65, 108, 97, 115, 116, 111, 114>>
Str_JeromeIsmaAe == <<74, 101, 114, 111, 109, 101, 32, 73, 115, 109, 97, 45, 65, 101>>
Str_TimelapseTitle ==
    <<84, 105, 109, 101, 108, 97, 112, 115, 101, 32, 40, 77, 97, 114, 99, 32, 68, 101, 80, 117, 108, 115, 101, 32, 69, 120, 116, 101, 110, 100, 101, 100, 32, 82, 101, 109, 105, 120, 41>>

Query_bastinov == <<98, 97, 115, 116, 105, 110, 111, 118, 32, 100, 101, 118, 105, 110, 101>>  \* "bastinov devine"
File_bastinov ==   \* "Bastinov - Devine/02 Devine (Original Mix).mp3"
    <<66, 97, 115, 116, 105, 110, 111, 118, 32, 45, 32, 68, 101, 118, 105, 110, 101, 47, 48, 50, 32, 68, 101, 118, 105, 110, 101, 32, 40, 79, 114, 105, 103, 105, 110, 97, 108, 32, 77, 105, 120, 41, 46, 109, 112, 51>>

\* Candidates with degenerate paths: empty, "mp3", ".mp3", "/.mp3", "a.mp3/b".
DegenerateCandidates ==
    {Result("u1", <<>>, 0), Result("u1", <<109, 112, 51>>, 1),
     Result("u2", Ext_mp3, 2), Result("u2", <<47>> \o Ext_mp3, 3),
     Result("u1", File_dir_mp3, 4)}

\* The query and the file of the documented unrelated-candidate example.
Query_intelectual == <<105, 110, 116, 101, 108, 101, 99, 116, 117, 97, 108, 32, 116, 111, 32, 101, 108, 32, 98, 97, 114, 114, 105, 111, 32, 115, 97, 98, 101>>
File_unrelated ==   \* "Random Artist - Unrelated Song.mp3"
    <<82, 97, 110, 100, 111, 109, 32, 65, 114, 116, 105, 115, 116, 32, 45, 32, 85, 110, 114, 101, 108, 97, 116, 101, 100, 32, 83, 111, 110, 103, 46, 109, 112, 51>>

Query_mp3_a == <<109, 112, 51, 32, 97>>  \* "mp3 a"

\* Queries that hold the word "mp3", against files with the extension in
\* either case.
ExtensionInputs ==
    {Query_mp3_a, Query_a_b_mp3}
        \X SeqsUpTo({Result("u1", File_a_b, 10), Result("u2", File_a_x_MP3, 50)}, MaxResults)

FindBestMatchQueries ==
    {<<>>, <<97, 32, 98>>, Query_a_b_c_d}

FindBestMatchInputs ==
    (FindBestMatchQueries \X SeqsUpTo(Candidates, MaxResults))
        \cup (FindBestMatchQueries \X SeqsUpTo(DegenerateCandidates, MaxResults))
        \cup ExtensionInputs
        \cup {<< <<97, 32, 98>>, LongResults >>,
              <<Query_timelapse, <<Result("u1", File_timelapse, 1)>> >>,
              <<Query_intelectual, <<Result("u1", File_unrelated, 1)>> >>}

CalculateMatchScoreInputs ==
    ((Queries \cup {Query_mp3_a}) \X Filenames)
        \cup {<<Query_timelapse, File_timelapse>>, <<Query_bastinov, File_bastinov>>,
              <<Query_intelectual, File_unrelated>>}

extractRelevantFilenameInputs ==
    Filenames \cup {<<47>>, <<47, 47>>, <<97, 47>>, File_bastinov}

FilterMP3FilesInputs ==
    SeqsUpTo(DegenerateCandidates
                 \cup {Result("u1", File_a_b, 10), Result("u2", File_a_x_MP3, 50),
                       Result("u1", File_a_b_wav, 40)},
             MaxResults)

\* Tracks.  ID, AddedAt and Duration play no part in the query.
Artist(name) == [Name |-> name]
Track(artists, name) == [Artists |-> artists, Name |-> name]

Track_timelapse ==
    Track(<<Artist(Str_Alastor), Artist(Str_JeromeIsmaAe)>>, Str_TimelapseTitle)

\* Artist names "A-b", o-with-stroke and ""; track names "B", "x  y" and "".
Tracks ==
    {Track(artists, name) :
        artists \in SeqsUpTo({Artist(<<65, 45, 98>>), Artist(<<248>>), Artist(<<>>)}, MaxArtists),
        name \in {<<66>>, <<120, 32, 32, 121>>, <<>>}}
    \cup {Track_timelapse}

NoTrack == Track(<<>>, <<>>)

-----------------------------------------------------------------------------
(* The calls.  Init draws one call (the function and its arguments); the   *)
(* function's action runs it to completion and stores what it returns.     *)

\* The variables of a specification that is not being run.
RepeatIdle == earlier = Nil /\ sortFn = {}

WorkerIdle ==
    /\ newTracks = 0 /\ wpc = "idle" /\ spawned = 0
    /\ gpc = <<>> /\ semaphore = 0 /\ wg = 0
    /\ calls = <<>> /\ perr = <<>>

ConnectIdle ==
    /\ kpc = "idle" /\ maxAttempts = 0 /\ attempt = 0 /\ backoff = 0
    /\ endpointIx = 0 /\ slept = <<>> /\ connErr = "" /\ answer = "" /\ tried = 0

MonitorIdle ==
    /\ mpc = "idle" /\ clock = 0 /\ playlist = <<>> /\ lastCheck = 0
    /\ since = 0 /\ batch = <<>> /\ history = <<>> /\ checkErr = ""

NoStatus == [State |-> "", Completed |-> FALSE]

ClientIdle ==
    /\ cpc = "idle" /\ elapsed = 0 /\ status = NoStatus
    /\ requests = <<>> /\ matcherCalls = 0 /\ err = ""

CoreIdle ==
    /\ pc = "idle" /\ op = "none"
    /\ input = <<>> /\ query = <<>> /\ filename = <<>> /\ results = <<>> /\ track = NoTrack
    /\ scores = <<>> /\ scorerCalls = 0 /\ logged = <<>> /\ fault = FALSE /\ ret = Nil

Init ==
    /\ pc = "call"
    /\ scores = <<>>
    /\ scorerCalls = 0
    /\ logged = <<>>
    /\ fault = FALSE
    /\ ret = Nil
    /\ RepeatIdle /\ WorkerIdle /\ ClientIdle /\ ConnectIdle /\ MonitorIdle
    /\ \/ /\ op \in {"TransliterateToASCII", "NormalizeString"}
          /\ input \in InputStrings
          /\ query = <<>> /\ filename = <<>> /\ results = <<>> /\ track = NoTrack
       \/ /\ op = "CreateSearchQuery"
          /\ track \in Tracks
          /\ input = <<>> /\ query = <<>> /\ filename = <<>> /\ results = <<>>
       \/ /\ op = "extractRelevantFilename"
          /\ filename \in extractRelevantFilenameInputs
          /\ input = <<>> /\ query = <<>> /\ results = <<>> /\ track = NoTrack
       \/ /\ op = "CalculateMatchScore"
          /\ \E in \in CalculateMatchScoreInputs : query = in[1] /\ filename = in[2]
          /\ input = <<>> /\ results = <<>> /\ track = NoTrack
       \/ /\ op = "FilterMP3Files"
          /\ results \in FilterMP3FilesInputs
          /\ input = <<>> /\ query = <<>> /\ filename = <<>> /\ track = NoTrack
       \/ /\ op = "FindBestMatch"
          /\ \E in \in FindBestMatchInputs : query = in[1] /\ results = in[2]
          /\ input = <<>> /\ filename = <<>> /\ track = NoTrack

args == <<op, input, query, filename, results, track>>

\* The variables of the other specifications.
otherVars == <<repeatVars, workerVars, clientVars, connectVars, monitorVars>>

CallTransliterateToASCII ==
    /\ pc = "call" /\ op = "TransliterateToASCII"
    /\ ret' = TransliterateToASCII(input)
    /\ pc' = "done"
    /\ UNCHANGED <<args, scores, scorerCalls, logged, fault>>
    /\ UNCHANGED otherVars

CallNormalizeString ==
    /\ pc = "call" /\ op = "NormalizeString"
    /\ ret' = NormalizeString(input)
    /\ pc' = "done"
    /\ UNCHANGED <<args, scores, scorerCalls, logged, fault>>
    /\ UNCHANGED otherVars

CallCreateSearchQuery ==
    /\ pc = "call" /\ op = "CreateSearchQuery"
    /\ ret' = CreateSearchQuery(track)
    /\ pc' = "done"
    /\ UNCHANGED <<args, scores, scorerCalls, logged, fault>>
    /\ UNCHANGED otherVars

\* extractRelevantFilename reads parts[len(parts)-1]: it panics if the split
\* gives no part.
CallExtractRelevantFilename ==
    /\ pc = "call" /\ op = "extractRelevantFilename"
    /\ fault' = (Len(Split(filename, 47)) = 0)
    /\ ret' = IF fault' THEN Nil ELSE extractRelevantFilename(filename)
    /\ pc' = "done"
    /\ UNCHANGED <<args, scores, scorerCalls, logged>>
    /\ UNCHANGED otherVars

CallCalculateMatchScore ==
    /\ pc = "call" /\ op = "CalculateMatchScore"
    /\ fault' = (Len(Split(filename, 47)) = 0)
    /\ ret' = IF fault' THEN Nil ELSE CalculateMatchScore(query, filename)
    /\ scorerCalls' = 1
    /\ pc' = "done"
    /\ UNCHANGED <<args, scores, logged>>
    /\ UNCHANGED otherVars

CallFilterMP3Files ==
    /\ pc = "call" /\ op = "FilterMP3Files"
    /\ ret' = FilterMP3Files(results)
    /\ pc' = "done"
    /\ UNCHANGED <<args, scores, scorerCalls, logged, fault>>
    /\ UNCHANGED otherVars

CallFindBestMatch ==
    /\ pc = "call" /\ op = "FindBestMatch"
    /\ \E out \in FindBestMatch(query, results) :
           /\ ret' = out.ret
           /\ scores' = out.scores
           /\ scorerCalls' = out.scorerCalls
           /\ logged' = out.logged
           /\ fault' = out.fault
    /\ pc' = "done"
    /\ UNCHANGED args
    /\ UNCHANGED otherVars

Next ==
    \/ CallTransliterateToASCII
    \/ CallNormalizeString
    \/ CallCreateSearchQuery
    \/ CallExtractRelevantFilename
    \/ CallCalculateMatchScore
    \/ CallFilterMP3Files
    \/ CallFindBestMatch

Spec == Init /\ [][Next]_vars

-----------------------------------------------------------------------------
(* The repeated call: FindBestMatch is called, possibly called with other  *)
(* arguments, and then called again with the arguments of the first call.  *)

RepeatCandidates ==
    {Result("u1", File_a_b, 10), Result("u2", File_a_b, 20),
     Result("u1", File_b_a, 30), Result("u1", File_a_b_wav, 40),
     Result("u1", File_4x, 90)}

RepeatInputs ==
    ({<<97, 32, 98>>, Query_a_b_c_d} \X SeqsUpTo(RepeatCandidates, MaxResults))
        \cup {<< <<97, 32, 98>>, LongResults >>,
              <<Query_timelapse, <<Result("u1", File_timelapse, 1)>> >>}

\* The arguments of the call in between.
OtherInputs ==
    {<< <<97, 32, 98>>, LongResults >>,
     << <<>>, <<>> >>,
     <<Query_a_b_c_d, <<Result("u1", File_a_b, 10), Result("u1", File_original, 60)>> >>}

InitRepeat ==
    /\ pc = "call" /\ op = "FindBestMatch"
    /\ \E in \in RepeatInputs : query = in[1] /\ results = in[2]
    /\ input = <<>> /\ filename = <<>> /\ track = NoTrack
    /\ scores = <<>> /\ scorerCalls = 0 /\ logged = <<>> /\ fault = FALSE /\ ret = Nil
    /\ RepeatIdle /\ WorkerIdle /\ ClientIdle /\ ConnectIdle /\ MonitorIdle

\* One FindBestMatch(q, rs) in the build at hand.
RunFindBestMatch(q, rs) ==
    \E out \in FindBestMatchBy(sortFn, q, rs) :
        /\ ret' = out.ret
        /\ scores' = out.scores
        /\ scorerCalls' = out.scorerCalls
        /\ logged' = out.logged
        /\ fault' = out.fault
        /\ sortFn' = out.sortFn

FirstCall ==
    /\ pc = "call"
    /\ RunFindBestMatch(query, results)
    /\ earlier' = [ret |-> ret', scores |-> scores', logged |-> logged']
    /\ pc' = "between"
    /\ UNCHANGED args
    /\ UNCHANGED <<workerVars, clientVars, connectVars, monitorVars>>

OtherCall ==
    /\ pc = "between"
    /\ \E in \in OtherInputs : RunFindBestMatch(in[1], in[2])
    /\ pc' = "again"
    /\ UNCHANGED <<args, earlier>>
    /\ UNCHANGED <<workerVars, clientVars, connectVars, monitorVars>>

SecondCall ==
    /\ pc \in {"between", "again"}
    /\ RunFindBestMatch(query, results)
    /\ pc' = "done"
    /\ UNCHANGED <<args, earlier>>
    /\ UNCHANGED <<workerVars, clientVars, connectVars, monitorVars>>

NextRepeat == FirstCall \/ OtherCall \/ SecondCall

SpecRepeat == InitRepeat /\ [][NextRepeat]_vars

-----------------------------------------------------------------------------
(* The worker: the concurrent part of checkForNewTracks.  One goroutine is *)
(* started per new track; each takes a slot of the semaphore channel,      *)
(* runs processTrack, gives the slot back and signals the WaitGroup.       *)

MaxTracks == 4   \* most new tracks of one check

\* The capacity of the semaphore channel.
SemaphoreCap == 3

\* A send on a channel that never blocks.
CanSend_unbounded(n) == TRUE

\* A send on the buffered channel goes through while the buffer has room.
CanSend(n) == n < SemaphoreCap

\* What a processTrack call returns: nil, or the error of SearchAndDownload.
ProcessTrackResults == {"nil", "search and download failed"}

\* A goroutine loop that drops the result of a failed processTrack call
\* together with the goroutine.
AfterProcessTrack_abort(e) == IF e = "nil" THEN "release" ELSE "exit"

\* The goroutine after processTrack: the error is logged, the function
\* returns and its deferred calls run.
AfterProcessTrack(e) == "release"

\* The goroutines of a check of n new tracks, before the loop starts them.
StartOfCheck(n) ==
    /\ newTracks' = n
    /\ wpc' = "spawn" /\ spawned' = 0
    /\ gpc' = [i \in 1..n |-> "none"]
    /\ calls' = [i \in 1..n |-> 0]
    /\ perr' = [i \in 1..n |-> ""]
    /\ semaphore' = 0 /\ wg' = 0

InitWorker ==
    /\ newTracks \in 1..MaxTracks
    /\ wpc = "spawn" /\ spawned = 0
    /\ gpc = [i \in 1..newTracks |-> "none"]
    /\ calls = [i \in 1..newTracks |-> 0]
    /\ perr = [i \in 1..newTracks |-> ""]
    /\ semaphore = 0 /\ wg = 0
    /\ CoreIdle /\ RepeatIdle /\ ClientIdle /\ ConnectIdle /\ MonitorIdle

\* One turn of the loop: wg.Add(1) and the go statement.
Spawn ==
    /\ wpc = "spawn" /\ spawned < newTracks
    /\ wg' = wg + 1
    /\ gpc' = [gpc EXCEPT ![spawned + 1] = "acquire"]
    /\ spawned' = spawned + 1
    /\ wpc' = IF spawned + 1 = newTracks THEN "wait" ELSE "spawn"
    /\ UNCHANGED <<newTracks, semaphore, calls, perr>>
    /\ UNCHANGED <<coreVars, repeatVars, clientVars, connectVars, monitorVars>>

\* semaphore <- struct{}{}
Acquire(i) ==
    /\ gpc[i] = "acquire" /\ CanSend(semaphore)
    /\ semaphore' = semaphore + 1
    /\ gpc' = [gpc EXCEPT ![i] = "process"]
    /\ UNCHANGED <<newTracks, wpc, spawned, wg, calls, perr>>
    /\ UNCHANGED <<coreVars, repeatVars, clientVars, connectVars, monitorVars>>

\* w.processTrack(ctx, t) runs and returns, with an error or without.
ProcessTrack(i) ==
    /\ gpc[i] = "process"
    /\ calls' = [calls EXCEPT ![i] = calls[i] + 1]
    /\ \E e \in ProcessTrackResults :
           /\ perr' = [perr EXCEPT ![i] = e]
           /\ gpc' = [gpc EXCEPT ![i] = AfterProcessTrack(e)]
    /\ UNCHANGED <<newTracks, wpc, spawned, semaphore, wg>>
    /\ UNCHANGED <<coreVars, repeatVars, clientVars, connectVars, monitorVars>>

\* A goroutine that returns without taking its element back from the
\* channel.
Release_keepSlot(i) ==
    /\ gpc[i] = "release"
    /\ gpc' = [gpc EXCEPT ![i] = "wgDone"]
    /\ UNCHANGED <<newTracks, wpc, spawned, semaphore, wg, calls, perr>>
    /\ UNCHANGED <<coreVars, repeatVars, clientVars, connectVars, monitorVars>>

\* The deferred <-semaphore.
Release(i) ==
    /\ gpc[i] = "release"
    /\ semaphore' = semaphore - 1
    /\ gpc' = [gpc EXCEPT ![i] = "wgDone"]
    /\ UNCHANGED <<newTracks, wpc, spawned, wg, calls, perr>>
    /\ UNCHANGED <<coreVars, repeatVars, clientVars, connectVars, monitorVars>>

\* The deferred wg.Done().
WgDone(i) ==
    /\ gpc[i] = "wgDone"
    /\ wg' = wg - 1
    /\ gpc' = [gpc EXCEPT ![i] = "exit"]
    /\ UNCHANGED <<newTracks, wpc, spawned, semaphore, calls, perr>>
    /\ UNCHANGED <<coreVars, repeatVars, clientVars, connectVars, monitorVars>>

\* wg.Wait() returns once the counter is zero; checkForNewTracks returns nil.
Wait ==
    /\ wpc = "wait" /\ wg = 0
    /\ wpc' = "returned"
    /\ UNCHANGED <<newTracks, spawned, gpc, semaphore, wg, calls, perr>>
    /\ UNCHANGED <<coreVars, repeatVars, clientVars, connectVars, monitorVars>>

NextWorker ==
    \/ Spawn
    \/ \E i \in 1..newTracks : Acquire(i)
    \/ \E i \in 1..newTracks : ProcessTrack(i)
    \/ \E i \in 1..newTracks : Release(i)
    \/ \E i \in 1..newTracks : WgDone(i)
    \/ Wait

SpecWorker == InitWorker /\ [][NextWorker]_vars

\* The Go scheduler runs every goroutine that can take a step: the loop of
\* checkForNewTracks, a goroutine whose send on the channel can proceed, its
\* deferred calls and the return of wg.Wait.  Every processTrack call is
\* taken to return.
WorkerFairness ==
    /\ WF_vars(Spawn)
    /\ WF_vars(\E i \in 1..newTracks : Acquire(i))
    /\ WF_vars(\E i \in 1..newTracks : ProcessTrack(i))
    /\ WF_vars(\E i \in 1..newTracks : Release(i))
    /\ WF_vars(\E i \in 1..newTracks : WgDone(i))
    /\ WF_vars(Wait)

SpecWorkerFair == InitWorker /\ [][NextWorker]_vars /\ WorkerFairness

-----------------------------------------------------------------------------
(* The client: processTrack builds the query and runs SearchAndDownload,   *)
(* which starts a search, polls its status, fetches the results, asks the  *)
(* matcher for the best one and requests its download.  The slskd service  *)
(* answers each request in any of the ways the code tells apart.           *)

MaxFetched == 2     \* longest generated list of fetched results
SlowResponse == 58  \* seconds a slow status request may take

\* The timeout handed to WaitForSearchComplete and its poll interval, in seconds.
WaitTimeout == 60
pollInterval == 2

Path_searches == <<47, 97, 112, 105, 47, 118, 48, 47, 115, 101, 97, 114, 99, 104, 101, 115>>  \* "/api/v0/searches"
Path_responses == <<47, 114, 101, 115, 112, 111, 110, 115, 101, 115>>  \* "/responses"
Path_downloads ==   \* "/api/v0/transfers/downloads/"
    <<47, 97, 112, 105, 47, 118, 48, 47, 116, 114, 97, 110, 115, 102, 101, 114, 115, 47, 100, 111, 119, 110, 108, 111, 97, 100, 115, 47>>
SearchID == <<49>>  \* the id the service gave the search

\* The first position of the rune c in s, 0 if there is none.
FirstIndex(s, c) ==
    IF \E i \in 1..Len(s) : s[i] = c
    THEN CHOOSE i \in 1..Len(s) : s[i] = c /\ \A k \in 1..(i - 1) : s[k] # c
    ELSE 0

IsHex(c) == c \in (48..57) \cup (65..70) \cup (97..102)

\* Every "%" of s begins an escape of two hex digits.
ValidEscapes(s) ==
    \A i \in 1..Len(s) :
        s[i] = 37 => (i + 2 <= Len(s) /\ IsHex(s[i + 1]) /\ IsHex(s[i + 2]))

\* http.NewRequest parses baseURL + endpoint with url.Parse: the text from
\* the first "#" on is the fragment, which is not sent; of the rest, the
\* text after the first "?" is the query; a bad escape in path or
\* fragment makes the parse, and with it makeRequest, fail.
ParseEndpoint(endpoint) ==
    LET h == FirstIndex(endpoint, 35)
        rest == IF h = 0 THEN endpoint ELSE SubSeq(endpoint, 1, h - 1)
        fragment == IF h = 0 THEN <<>> ELSE SubSeq(endpoint, h + 1, Len(endpoint))
        q == FirstIndex(rest, 63)
        path == IF q = 0 THEN rest ELSE SubSeq(rest, 1, q - 1)
        rawQuery == IF q = 0 THEN <<>> ELSE SubSeq(rest, q + 1, Len(rest))
    IN  [ok |-> ValidEscapes(path) /\ ValidEscapes(fragment),
         path |-> path, rawQuery |-> rawQuery]

\* A request as the service receives it.
Request(kind, url, body) ==
    [kind |-> kind, path |-> url.path, rawQuery |-> url.rawQuery, body |-> body]

\* The users of the fetched results: "u", "a#b" and "50%".
User_u == <<117>>
User_fragment == <<97, 35, 98>>
User_percent == <<53, 48, 37>>

FetchedCandidates ==
    {Result(User_u, File_a_b, 10), Result(User_fragment, File_a_b, 30),
     Result(User_percent, File_a_b, 40), Result(User_u, File_a_b_wav, 50)}

\* The states a search status may show, and those among them that contain
\* "Completed" or "TimedOut".
SearchStates ==
    {"InProgress", "Completed", "TimedOut", "Completed, TimedOut",
     "Completed, Cancelled", "Cancelled"}
ContainsCompleted(state) ==
    state \in {"Completed", "Completed, TimedOut", "Completed, Cancelled"}
ContainsTimedOut(state) == state \in {"TimedOut", "Completed, TimedOut"}

\* The statuses the service answers with; the completed flag may be set
\* while the state still reads "InProgress".
Statuses ==
    [State : SearchStates, Completed : {FALSE}]
        \cup {[State |-> "InProgress", Completed |-> TRUE]}

\* A test that takes every state other than "InProgress" for finished.
IsComplete_notRunning(st) == st.State # "InProgress" \/ st.Completed

\* The test of WaitForSearchComplete for a finished search.
IsComplete(st) ==
    \/ st.State = "Completed" \/ st.Completed
    \/ st.State = "TimedOut" \/ ContainsCompleted(st.State) \/ ContainsTimedOut(st.State)

ClientTracks ==
    {Track(<<Artist(Word_a)>>, Word_b), Track(<<>>, Query_a_b_c_d)}

InitClient ==
    /\ cpc = "createQuery" /\ track \in ClientTracks
    /\ elapsed = 0 /\ status = NoStatus
    /\ requests = <<>> /\ matcherCalls = 0 /\ err = ""
    /\ pc = "idle" /\ op = "none"
    /\ input = <<>> /\ query = <<>> /\ filename = <<>> /\ results = <<>>
    /\ scores = <<>> /\ scorerCalls = 0 /\ logged = <<>> /\ fault = FALSE /\ ret = Nil
    /\ RepeatIdle /\ WorkerIdle /\ ConnectIdle /\ MonitorIdle

\* SearchAndDownload returns the error e.
Return(e) == cpc' = "returned" /\ err' = e

\* processTrack: query := utils.CreateSearchQuery(track).
CreateQuery ==
    /\ cpc = "createQuery"
    /\ query' = CreateSearchQuery(track)
    /\ cpc' = "search"
    /\ UNCHANGED <<elapsed, status, requests, matcherCalls, err>>
    /\ UNCHANGED <<pc, op, input, filename, results, track, scores, scorerCalls, logged, fault, ret>>
    /\ UNCHANGED <<repeatVars, workerVars, connectVars, monitorVars>>

\* c.Search(query): the POST is answered with an id, or fails.
StartSearch ==
    /\ cpc = "search"
    /\ requests' = Append(requests, Request("search", ParseEndpoint(Path_searches), <<query>>))
    /\ \/ cpc' = "wait" /\ err' = err
       \/ Return("failed to start search")
    /\ UNCHANGED <<elapsed, status, matcherCalls, coreVars>>
    /\ UNCHANGED <<repeatVars, workerVars, connectVars, monitorVars>>

\* One turn of the loop of WaitForSearchComplete.
Poll ==
    /\ cpc = "wait" /\ elapsed < WaitTimeout
    /\ requests' = Append(requests,
           Request("status", ParseEndpoint(Path_searches \o <<47>> \o SearchID), <<>>))
    /\ \/ Return("search failed") /\ UNCHANGED <<status, elapsed>>
       \/ \E st \in Statuses, took \in {0, SlowResponse} :
             /\ status' = st
             /\ IF IsComplete(st)
                THEN cpc' = "results" /\ err' = err /\ elapsed' = elapsed + took
                ELSE IF st.State = "Cancelled"
                THEN Return("search failed") /\ elapsed' = elapsed + took
                ELSE cpc' = "wait" /\ err' = err /\ elapsed' = elapsed + took + pollInterval
    /\ UNCHANGED <<matcherCalls, coreVars>>
    /\ UNCHANGED <<repeatVars, workerVars, connectVars, monitorVars>>

\* The deadline has passed when the loop condition is evaluated.
Deadline ==
    /\ cpc = "wait" /\ elapsed >= WaitTimeout
    /\ Return("search failed")
    /\ UNCHANGED <<elapsed, status, requests, matcherCalls, coreVars>>
    /\ UNCHANGED <<repeatVars, workerVars, connectVars, monitorVars>>

\* c.GetSearchResults(searchID) and the test for an empty list.
FetchResults ==
    /\ cpc = "results"
    /\ requests' = Append(requests,
           Request("responses", ParseEndpoint(Path_searches \o <<47>> \o SearchID \o Path_responses), <<>>))
    /\ \/ Return("failed to get search results") /\ UNCHANGED results
       \/ \E rs \in SeqsUpTo(FetchedCandidates, MaxFetched) :
             /\ results' = rs
             /\ IF Len(rs) = 0 THEN Return("no search results found")
                ELSE cpc' = "match" /\ err' = err
    /\ UNCHANGED <<elapsed, status, matcherCalls>>
    /\ UNCHANGED <<pc, op, input, query, filename, track, scores, scorerCalls, logged, fault, ret>>
    /\ UNCHANGED <<repeatVars, workerVars, connectVars, monitorVars>>

\* matchFunc(results): the closure of processTrack calls FindBestMatch.
Match ==
    /\ cpc = "match"
    /\ matcherCalls' = matcherCalls + 1
    /\ \E out \in FindBestMatch(query, results) :
           /\ ret' = out.ret
           /\ scores' = out.scores
           /\ scorerCalls' = out.scorerCalls
           /\ logged' = out.logged
           /\ fault' = out.fault
           /\ IF out.ret = Nil THEN Return("no suitable match found")
              ELSE cpc' = "download" /\ err' = err
    /\ UNCHANGED <<elapsed, status, requests>>
    /\ UNCHANGED <<pc, op, input, query, filename, results, track>>
    /\ UNCHANGED <<repeatVars, workerVars, connectVars, monitorVars>>

\* c.DownloadFile(bestMatch.Username, bestMatch.Filename, bestMatch.Size):
\* the endpoint is the downloads path followed by the user name as it is.
DownloadFile ==
    /\ cpc = "download"
    /\ LET url == ParseEndpoint(Path_downloads \o ret.Username)
           body == <<[filename |-> ret.Filename, size |-> ret.Size]>>
       IN  IF ~url.ok
           THEN Return("failed to start download") /\ UNCHANGED requests
           ELSE /\ requests' = Append(requests, Request("download", url, body))
                /\ \/ Return("")
                   \/ Return("failed to start download")
    /\ UNCHANGED <<elapsed, status, matcherCalls, coreVars>>
    /\ UNCHANGED <<repeatVars, workerVars, connectVars, monitorVars>>

NextClient ==
    \/ CreateQuery
    \/ StartSearch
    \/ Poll
    \/ Deadline
    \/ FetchResults
    \/ Match
    \/ DownloadFile

SpecClient == InitClient /\ [][NextClient]_vars

-----------------------------------------------------------------------------
(* The monitoring loop of Start with checkForNewTracks, and the playlist   *)
(* it watches.  The time is a counter: a reading of time.Now() gives       *)
(* clock, and a track is added at a time of its own between two possible   *)
(* readings, so that no AddedAt ever equals a value of time.Now().         *)

MaxAdded == 3   \* most tracks added to the playlist while the worker runs

\* A playlist item: the track and the time it was added.
Item(id, addedAt) == [id |-> id, AddedAt |-> addedAt]

\* GetNewTracks: the items of the playlist added after since, in playlist
\* order.
NewTracksSince(items, t) == SelectSeq(items, LAMBDA it : it.AddedAt > t)

\* The ids of the tracks added while the worker runs.
AddedIds == {playlist[k].id : k \in 1..Len(playlist)} \ {0}

\* Start has set the initial lastCheck and is about to make its initial
\* check; the playlist holds a track from before.
InitMonitor ==
    /\ mpc = "check" /\ clock = 0 /\ lastCheck = 0 /\ since = 0
    /\ playlist = <<Item(0, -1)>>
    /\ batch = <<>> /\ history = <<>> /\ checkErr = ""
    /\ CoreIdle /\ RepeatIdle /\ WorkerIdle /\ ClientIdle /\ ConnectIdle

\* The owner of the playlist adds a track.
AddTrack ==
    /\ mpc # "stopped" /\ Cardinality(AddedIds) < MaxAdded
    /\ playlist' = Append(playlist, Item(Cardinality(AddedIds) + 1, clock + 1))
    /\ clock' = clock + 2
    /\ UNCHANGED <<mpc, lastCheck, since, batch, history, checkErr>>
    /\ UNCHANGED workerVars
    /\ UNCHANGED <<coreVars, repeatVars, clientVars, connectVars>>

\* checkForNewTracks begins: lastCheck := w.lastCheck under the mutex.
ReadLastCheck ==
    /\ mpc = "check"
    /\ since' = lastCheck
    /\ mpc' = "fetch" /\ checkErr' = ""
    /\ UNCHANGED <<clock, playlist, lastCheck, batch, history>>
    /\ UNCHANGED workerVars
    /\ UNCHANGED <<coreVars, repeatVars, clientVars, connectVars>>

\* A failed fetch that stamps lastCheck all the same.
GetNewTracksFails_stamp ==
    /\ mpc = "fetch"
    /\ batch' = <<>> /\ checkErr' = "failed to get new tracks"
    /\ mpc' = "select" /\ lastCheck' = clock
    /\ UNCHANGED <<clock, playlist, since, history>>
    /\ UNCHANGED workerVars
    /\ UNCHANGED <<coreVars, repeatVars, clientVars, connectVars>>

\* GetNewTracks fails: checkForNewTracks returns the error and Start logs it.
GetNewTracksFails ==
    /\ mpc = "fetch"
    /\ batch' = <<>> /\ checkErr' = "failed to get new tracks"
    /\ mpc' = "select"
    /\ UNCHANGED <<clock, playlist, lastCheck, since, history>>
    /\ UNCHANGED workerVars
    /\ UNCHANGED <<coreVars, repeatVars, clientVars, connectVars>>

\* GetNewTracks succeeds; without new tracks checkForNewTracks returns nil.
GetNewTracks ==
    /\ mpc = "fetch"
    /\ batch' = NewTracksSince(playlist, since)
    /\ IF Len(batch') = 0
       THEN mpc' = "select" /\ checkErr' = "nil"
       ELSE mpc' = "update" /\ checkErr' = checkErr
    /\ UNCHANGED <<clock, playlist, lastCheck, since, history>>
    /\ UNCHANGED workerVars
    /\ UNCHANGED <<coreVars, repeatVars, clientVars, connectVars>>

\* w.lastCheck = time.Now(), then the WaitGroup and the semaphore are made.
UpdateLastCheck ==
    /\ mpc = "update"
    /\ lastCheck' = clock
    /\ StartOfCheck(Len(batch))
    /\ mpc' = "process"
    /\ UNCHANGED <<clock, playlist, since, batch, history, checkErr>>
    /\ UNCHANGED <<coreVars, repeatVars, clientVars, connectVars>>

\* checkForNewTracks has returned nil after wg.Wait; Start is back at its
\* select.  The processTrack calls of the check go to the history.
CheckReturns ==
    /\ mpc = "process" /\ wpc = "returned"
    /\ history' = history \o [i \in 1..Len(batch) |->
                                 [id |-> batch[i].id, calls |-> calls[i], err |-> perr[i]]]
    /\ checkErr' = "nil"
    /\ mpc' = "select"
    /\ newTracks' = 0 /\ wpc' = "idle" /\ spawned' = 0
    /\ gpc' = <<>> /\ semaphore' = 0 /\ wg' = 0
    /\ calls' = <<>> /\ perr' = <<>>
    /\ UNCHANGED <<clock, playlist, lastCheck, since, batch>>
    /\ UNCHANGED <<coreVars, repeatVars, clientVars, connectVars>>

\* case <-ticker.C: the next check is started.
Tick ==
    /\ mpc = "select"
    /\ mpc' = "check"
    /\ UNCHANGED <<clock, playlist, lastCheck, since, batch, history, checkErr>>
    /\ UNCHANGED workerVars
    /\ UNCHANGED <<coreVars, repeatVars, clientVars, connectVars>>

\* case <-ctx.Done(): Start returns.
Shutdown ==
    /\ mpc = "select"
    /\ mpc' = "stopped"
    /\ UNCHANGED <<clock, playlist, lastCheck, since, batch, history, checkErr>>
    /\ UNCHANGED workerVars
    /\ UNCHANGED <<coreVars, repeatVars, clientVars, connectVars>>

NextMonitor ==
    \/ AddTrack
    \/ ReadLastCheck
    \/ GetNewTracksFails
    \/ GetNewTracks
    \/ UpdateLastCheck
    \/ Spawn
    \/ \E i \in 1..newTracks : Acquire(i)
    \/ \E i \in 1..newTracks : ProcessTrack(i)
    \/ \E i \in 1..newTracks : Release(i)
    \/ \E i \in 1..newTracks : WgDone(i)
    \/ Wait
    \/ CheckReturns
    \/ Tick
    \/ Shutdown

\* The worker's goroutine runs whenever it can, the ticker keeps firing
\* and a request to the playlist service is answered.  Nothing is assumed
\* of the owner of the playlist, of the shutdown or of failing fetches.
MonitorFairness ==
    /\ WorkerFairness
    /\ WF_vars(ReadLastCheck)
    /\ WF_vars(GetNewTracks)
    /\ WF_vars(UpdateLastCheck)
    /\ WF_vars(CheckReturns)
    /\ WF_vars(Tick)

SpecMonitor == InitMonitor /\ [][NextMonitor]_vars /\ MonitorFairness

-----------------------------------------------------------------------------
(* WaitForConnection: rounds over the endpoints of the service, with a     *)
(* growing wait before every round but the first.  Times are in seconds.   *)

MaxRounds == 7   \* largest maxAttempts argument

\* The endpoints tried in every round, in this order.
endpoints ==
    <<"/api/v0/application", "/api/v0/application/state", "/api/v0/server/state",
      "/api/v0/session", "/swagger", "/">>

\* What makeRequest gives: an error, or a response with a status code.
Answers == {"error", "200", "401", "403", "404", "500"}

\* The answers that end the wait: the service is there.
Connected(a) == a \in {"200", "401", "403"}

InitialBackoff == 1
BackoffCap == 30

\* A backoff that doubles without limit.
NextBackoff_uncapped(b) == 2 * b

\* backoff *= 2, held at 30 seconds.
NextBackoff(b) == IF 2 * b > BackoffCap THEN BackoffCap ELSE 2 * b

InitConnect ==
    /\ kpc = "round" /\ maxAttempts \in 0..MaxRounds
    /\ attempt = 1 /\ backoff = InitialBackoff
    /\ endpointIx = 0 /\ slept = <<>> /\ connErr = "" /\ answer = "" /\ tried = 0
    /\ CoreIdle /\ RepeatIdle /\ WorkerIdle /\ ClientIdle /\ MonitorIdle

\* The head of the loop with attempt <= maxAttempts: every round but the
\* first sleeps for backoff and then raises it.
BeginRound ==
    /\ kpc = "round" /\ attempt <= maxAttempts
    /\ IF attempt > 1
       THEN slept' = Append(slept, backoff) /\ backoff' = NextBackoff(backoff)
       ELSE UNCHANGED <<slept, backoff>>
    /\ kpc' = "try" /\ endpointIx' = 1
    /\ UNCHANGED <<maxAttempts, attempt, connErr, answer, tried>>
    /\ UNCHANGED <<coreVars, repeatVars, workerVars, clientVars, monitorVars>>

\* One request of the inner loop and what follows from its answer.
TryEndpoint ==
    /\ kpc = "try"
    /\ tried' = tried + 1
    /\ \E a \in Answers :
           /\ answer' = a
           /\ IF Connected(a)
              THEN kpc' = "returned" /\ connErr' = "nil" /\ UNCHANGED <<attempt, endpointIx>>
              ELSE /\ connErr' = connErr
                   /\ IF endpointIx < Len(endpoints)
                      THEN kpc' = "try" /\ endpointIx' = endpointIx + 1 /\ attempt' = attempt
                      ELSE kpc' = "round" /\ endpointIx' = endpointIx /\ attempt' = attempt + 1
    /\ UNCHANGED <<maxAttempts, backoff, slept>>
    /\ UNCHANGED <<coreVars, repeatVars, workerVars, clientVars, monitorVars>>

\* The loop ends with attempt > maxAttempts: the error is returned.
GiveUp ==
    /\ kpc = "round" /\ attempt > maxAttempts
    /\ kpc' = "returned" /\ connErr' = "failed to connect to Slskd"
    /\ UNCHANGED <<maxAttempts, attempt, backoff, endpointIx, slept, answer, tried>>
    /\ UNCHANGED <<coreVars, repeatVars, workerVars, clientVars, monitorVars>>

NextConnect ==
    \/ BeginRound
    \/ TryEndpoint
    \/ GiveUp

\* Every request returns (the HTTP client has a timeout) and every sleep
\* ends.
SpecConnect == InitConnect /\ [][NextConnect]_vars /\ WF_vars(NextConnect)

-----------------------------------------------------------------------------
(* Properties.                                                             *)

Done(f) == pc = "done" /\ op = f

\* A path ends in ".mp3", compared case-insensitively.
EndsWithMP3(f) ==
    Len(f) >= 4 /\ ToLower(SubSeq(f, Len(f) - 3, Len(f))) = <<46, 109, 112, 51>>

\* The eligible candidates of the call, in input order, and their scores.
EligibleResults == SelectSeq(results, LAMBDA r : EndsWithMP3(r.Filename))

ScoreOf(r) == CalculateMatchScore(query, r.Filename).Score

\* r's score is the highest among the eligible candidates.
HasBestScore(r) ==
    LET best == ScoreOf(r)
        eligible == EligibleResults
    IN  \A i \in 1..Len(eligible) : ~ScoreGreater(ScoreOf(eligible[i]), best)

FirstBestEligible ==
    EligibleResults[CHOOSE i \in 1..Len(EligibleResults) :
        /\ HasBestScore(EligibleResults[i])
        /\ \A j \in 1..(i - 1) : ~HasBestScore(EligibleResults[j])]

\* C1: when FindBestMatch returns a winner, it is the first candidate of the
\* input among the eligible ones with the highest score, and the ranked
\* scores keep candidates of equal score in input order.
C1_StableTieBreak ==
    (Done("FindBestMatch") /\ ret # Nil) =>
        /\ ret = FirstBestEligible
        /\ \A i, j \in 1..Len(scores) :
              (i < j /\ ScoreEqual(scores[i].Score, scores[j].Score)) =>
                  \E a, b \in 1..Len(EligibleResults) :
                      /\ a <= b
                      /\ EligibleResults[a].Filename = scores[i].Filename
                      /\ EligibleResults[b].Filename = scores[j].Filename

\* C2: FindBestMatch returns a winner exactly when some eligible candidate
\* scores at least the threshold 0.15 (so the eligible set is non-empty and
\* its maximum score reaches the threshold); otherwise it returns nil.
C2_ThresholdGate ==
    Done("FindBestMatch") =>
        (ret # Nil <=>
            \E i \in 1..Len(EligibleResults) :
                ScoreOf(EligibleResults[i]).num * 100 >= 15 * ScoreOf(EligibleResults[i]).den)

\* C2 witness: a winner whose score is exactly 0.15.
C2_Witness ==
    /\ Done("FindBestMatch") /\ ret # Nil
    /\ ScoreOf(ret).num * 100 = 15 * ScoreOf(ret).den
    /\ HasBestScore(ret)

\* C3: a returned winner equals one of the input candidates in every field,
\* that candidate is eligible, and its score is the maximum over the
\* eligible candidates.
C3_WinnerIsBestInput ==
    (Done("FindBestMatch") /\ ret # Nil) =>
        /\ \E i \in 1..Len(results) : results[i] = ret
        /\ EndsWithMP3(ret.Filename)
        /\ HasBestScore(ret)

\* C3 witness: a winner picked among eligible candidates of different scores,
\* with an ineligible candidate in the input as well.
C3_Witness ==
    /\ Done("FindBestMatch") /\ ret # Nil
    /\ \E i \in 1..Len(EligibleResults) : ScoreGreater(ScoreOf(ret), ScoreOf(EligibleResults[i]))
    /\ \E i \in 1..Len(results) : ~EndsWithMP3(results[i].Filename)
    /\ results[1] # ret

\* C4: with no eligible candidate in the input FindBestMatch returns nil and
\* makes no CalculateMatchScore call, however well a path matches the query.
C4_NoEligibleNoMatch ==
    (Done("FindBestMatch") /\ Len(EligibleResults) = 0) =>
        (ret = Nil /\ scorerCalls = 0 /\ scores = <<>>)

\* C4 witness: a non-empty input of ineligible candidates only, one of which
\* the scorer would give 1.0.
C4_Witness ==
    /\ Done("FindBestMatch") /\ results # <<>> /\ Len(EligibleResults) = 0
    /\ \E i \in 1..Len(results) : ScoreOf(results[i]).num = ScoreOf(results[i]).den
    /\ ret = Nil

\* C5: every score CalculateMatchScore returns, directly or into the scores
\* of FindBestMatch, lies in [0, 1].
InUnitInterval(score) == score.den > 0 /\ 0 <= score.num /\ score.num <= score.den

C5_ScoreInUnitInterval ==
    /\ Done("CalculateMatchScore") => InUnitInterval(ret.Score)
    /\ Done("FindBestMatch") => \A i \in 1..Len(scores) : InUnitInterval(scores[i].Score)

\* The unclamped sum base + seq + orig - penalty printed in a Reason.
RawSum(reason) == reason[2] + reason[3] + reason[4] - reason[5]

\* C5 witness: one ranking that holds a score clamped down from above 1
\* (repeated matching words) and one clamped up from below 0 (the penalty
\* exceeds base and bonuses).
C5_Witness ==
    /\ Done("FindBestMatch")
    /\ \E i \in 1..Len(scores) :
          /\ Len(scores[i].Reason) = 7
          /\ RawSum(scores[i].Reason) > 100 * scores[i].Reason[7]
          /\ scores[i].Reason[2] > 100 * scores[i].Reason[7]
          /\ scores[i].Score.num = scores[i].Score.den
    /\ \E i \in 1..Len(scores) :
          /\ Len(scores[i].Reason) = 7
          /\ RawSum(scores[i].Reason) < 0
          /\ scores[i].Score.num = 0

\* C6: NormalizeString applied to its own result returns it unchanged.
C6_NormalizeIdempotent ==
    Done("NormalizeString") => NormalizeString(ret) = ret

\* C6 witness: a call that changed its argument.
C6_Witness ==
    /\ Done("NormalizeString") /\ ret # input /\ ret # <<>>
    /\ \E i \in 1..Len(input) : input[i] > 127
    /\ \E i \in 1..Len(input) : input[i] \in {9, 45}
    /\ NormalizeString(ret) = ret

\* C7: the name spelt with l-with-stroke and z-with-dot transliterates to
\* "Blazej Malinowski" and normalizes like the ASCII spelling.
C7_PolishFolding ==
    /\ (Done("TransliterateToASCII") /\ input = Str_BlazejPL) => ret = Str_BlazejASCII
    /\ (Done("NormalizeString") /\ input = Str_BlazejPL) => ret = NormalizeString(Str_BlazejASCII)

\* The lower-case and the capital runes of the mapping table (Unicode
\* general categories Ll and Lu).
MappedLower == {r \in DOMAIN charMappings : r \in 224..255}
MappedUpper == DOMAIN charMappings \ MappedLower

\* C8: a rune of the mapping table becomes ASCII letters of its own case
\* (lower for lower, capital for capital), ae-ligature becomes "ae", and the
\* name spelt with o-with-stroke and a-with-ring normalizes to "rodhad".
C8_MappedRunes ==
    /\ (Done("NormalizeString") /\ input = Str_Rodhad) => ret = Str_rodhad
    /\ (Done("TransliterateToASCII") /\ input = Str_Rodhad) => ret = <<82, 111, 100, 104, 97, 100>>
    /\ (Done("TransliterateToASCII") /\ input = <<230>>) => ret = <<97, 101>>
    /\ (Done("TransliterateToASCII") /\ Len(input) = 1 /\ input[1] \in MappedLower) =>
           (ret # <<>> /\ \A i \in 1..Len(ret) : ret[i] \in 97..122)
    /\ (Done("TransliterateToASCII") /\ Len(input) = 1 /\ input[1] \in MappedUpper) =>
           (ret # <<>> /\ \A i \in 1..Len(ret) : ret[i] \in 65..90)

\* C8 witness: the capital ae-ligature came out as two capital letters.
C8_Witness ==
    Done("TransliterateToASCII") /\ input = <<198>> /\ ret = <<65, 69>>

\* The normalized query and the normalized relevant file name of the call.
NormQuery == NormalizeString(query)
NormFilename == NormalizeString(extractRelevantFilename(filename))

\* C9 as stated: the score is 1.0 whenever the normalized query equals the
\* normalized relevant file name (of a path that is not empty).
C9_ExactMatchAlways ==
    (Done("CalculateMatchScore") /\ filename # <<>> /\ NormQuery = NormFilename) =>
        ret.Score.num = ret.Score.den

\* C9 amended: the score is 1.0, by the exact-match return, whenever the
\* normalized query equals the normalized relevant file name and is not empty.
C9_ExactMatchNonEmpty ==
    (Done("CalculateMatchScore") /\ NormQuery = NormFilename /\ NormQuery # <<>>) =>
        (ret.Score.num = ret.Score.den /\ ret.Reason = <<"exact match">>)

\* C9 witness: an exact match of a raw query and a raw path that differ.
C9_Witness ==
    /\ Done("CalculateMatchScore") /\ NormQuery = NormFilename /\ NormQuery # <<>>
    /\ query # filename /\ Len(Fields(NormQuery)) >= 2
    /\ ret.Score.num = ret.Score.den

\* C10: a query whose normalized form has no words scores 0.0 with the
\* reason "empty query" against every path, also where another branch (the
\* exact match) would apply.
C10_EmptyQuery ==
    (Done("CalculateMatchScore") /\ Fields(NormQuery) = <<>>) =>
        (ret.Score.num = 0 /\ ret.Reason = <<"empty query">>)

\* C10 witness: a non-empty query that normalizes away, against a path whose
\* normalized relevant name equals the normalized query.
C10_Witness ==
    /\ Done("CalculateMatchScore") /\ query # <<>> /\ filename # <<>>
    /\ Fields(NormQuery) = <<>> /\ NormQuery = NormFilename
    /\ ret.Reason = <<"empty query">>

\* The extension of a path as the text after its last dot is "mp3", compared
\* case-insensitively.
HasMP3Extension(f) ==
    \E i \in 1..Len(f) :
        /\ f[i] = 46
        /\ \A k \in (i + 1)..Len(f) : f[k] # 46
        /\ ToLower(SubSeq(f, i + 1, Len(f))) = <<109, 112, 51>>

\* C12: FilterMP3Files returns exactly the subsequence of its input whose
\* extension is "mp3" case-insensitively: order kept, duplicates kept, and
\* the empty input gives the empty output.
C12_FilterExactSubsequence ==
    Done("FilterMP3Files") =>
        /\ ret = SelectSeq(results, LAMBDA r : HasMP3Extension(r.Filename))
        /\ (results = <<>> => ret = <<>>)

\* C12 witness: a duplicate with a capital extension is kept twice while
\* the candidate between the two is dropped.
C12_Witness ==
    /\ Done("FilterMP3Files") /\ Len(results) = 3 /\ Len(ret) = 2
    /\ ret[1] = ret[2] /\ results[1] = results[3]
    /\ ret[1].Filename = File_a_x_MP3

\* The positions of the slashes of the filename argument.
SlashPositions == {i \in 1..Len(filename) : filename[i] = 47}

Max(S) == CHOOSE m \in S : \A k \in S : k <= m

\* C14: extractRelevantFilename returns a path without a slash unchanged,
\* and otherwise the segment before the last slash, a space and the segment
\* after it; so for the path "Bastinov - Devine/02 Devine (Original Mix).mp3"
\* and the query "bastinov devine" the word "bastinov" of the directory is
\* counted: three words match ("bastinov", "devine", "devine").
C14_ParentDirectory ==
    /\ Done("extractRelevantFilename") =>
           IF SlashPositions = {} THEN ret = filename
           ELSE LET last == Max(SlashPositions)
                    prev == Max((SlashPositions \ {last}) \cup {0})
                IN  ret = SubSeq(filename, prev + 1, last - 1) \o <<32>>
                              \o SubSeq(filename, last + 1, Len(filename))
    /\ (Done("CalculateMatchScore") /\ query = Query_bastinov /\ filename = File_bastinov) =>
           (Len(ret.Reason) = 7 /\ ret.Reason[6] = 3)

\* C14 witness: the scored path with the artist in its directory.
C14_Witness ==
    /\ Done("CalculateMatchScore") /\ query = Query_bastinov /\ filename = File_bastinov
    /\ Cardinality(SlashPositions) = 1
    /\ ret.Reason[6] = 3 /\ ret.Score.num = ret.Score.den

\* The artist names of the track argument, in order, then its name.
TrackParts == [i \in 1..Len(track.Artists) |-> track.Artists[i].Name] \o <<track.Name>>

\* C19: CreateSearchQuery returns NormalizeString of the artist names in
\* order and the track name, joined by single spaces; without artists that
\* is NormalizeString of the track name; and the query is a fixed point of
\* NormalizeString, so normalizing it again gives the same words.
C19_QueryConstruction ==
    Done("CreateSearchQuery") =>
        /\ ret = NormalizeString(JoinWith(TrackParts, 32))
        /\ (track.Artists = <<>> => ret = NormalizeString(track.Name))
        /\ NormalizeString(ret) = ret
        /\ Fields(NormalizeString(ret)) = Fields(ret)

\* C19 witness: the query of the track of two artists of the documented
\* example has nine words, the remixer's name being one of them.
C19_Witness ==
    /\ Done("CreateSearchQuery") /\ track = Track_timelapse
    /\ Len(Fields(ret)) = 9
    /\ Fields(ret)[1] = ToLower(Str_Alastor)
    /\ Fields(ret)[7] = <<100, 101, 112, 117, 108, 115, 101>>

\* C20: the result of NormalizeString holds only a-z, 0-9 and the space,
\* neither begins nor ends with a space and has no two spaces in a row.
C20_NormalizedAlphabet ==
    (Done("NormalizeString") \/ Done("CreateSearchQuery")) =>
        /\ \A i \in 1..Len(ret) : ret[i] \in (97..122) \cup (48..57) \cup {32}
        /\ ret # <<>> => (ret[1] # 32 /\ ret[Len(ret)] # 32)
        /\ \A i \in 1..(Len(ret) - 1) : ~(ret[i] = 32 /\ ret[i + 1] = 32)

\* C20 witness: a capital, a tab and o-with-stroke come out as "b o".
C20_Witness ==
    Done("NormalizeString") /\ input = <<66, 9, 248>> /\ ret = <<98, 32, 111>>

\* C13: for the query "alastor jerome isma ae timelapse marc de pulse
\* extended remix" and the one candidate "Alastor, Jerome Isma-Ae -
\* Timelapse (Marc DePulse Extended Remix).mp3" the score has a word overlap
\* of about 1.0 (at least 0.9) and the 0.2 sequence bonus, and FindBestMatch
\* returns the candidate.
C13_TimelapseScenario ==
    /\ (Done("CalculateMatchScore") /\ query = Query_timelapse /\ filename = File_timelapse) =>
           /\ Len(ret.Reason) = 7
           /\ 10 * ret.Reason[2] >= 9 * ret.Score.den
           /\ 100 * ret.Reason[3] = SequenceBonusPct * ret.Score.den
    /\ (Done("FindBestMatch") /\ query = Query_timelapse) =>
           ret = Result("u1", File_timelapse, 1)

\* C15: FindBestMatch and CalculateMatchScore (and extractRelevantFilename
\* under it) end with a value for every argument, degenerate ones included,
\* and never with a panic: FindBestMatch returns nil or one of its
\* candidates, CalculateMatchScore a score in [0, 1].
C15_Totality ==
    /\ Done("FindBestMatch") =>
           (~fault /\ (ret = Nil \/ \E i \in 1..Len(results) : results[i] = ret))
    /\ Done("CalculateMatchScore") =>
           (~fault /\ ret # Nil /\ InUnitInterval(ret.Score) /\ ret.Filename = filename)
    /\ Done("extractRelevantFilename") => ~fault

\* C15 witness: an empty query against the eligible paths ".mp3" and
\* "/.mp3" and an empty path: scores were ranked and nil was returned.
C15_Witness ==
    /\ Done("FindBestMatch") /\ query = <<>> /\ ret = Nil /\ ~fault
    /\ \E i \in 1..Len(results) : results[i].Filename = <<>>
    /\ Len(scores) = 2 /\ scores[1].Filename # scores[2].Filename
    /\ \A i \in 1..Len(scores) : Len(scores[i].Filename) <= 5

Processing == {i \in 1..newTracks : gpc[i] = "process"}

\* C17: at most 3 processTrack calls run at the same time, whatever the
\* number of new tracks, and a goroutine runs processTrack only while it
\* holds a slot of the semaphore.
C17_BoundedParallelism ==
    /\ Cardinality(Processing) <= 3
    /\ Cardinality(Processing) <= semaphore
    /\ semaphore = Cardinality({i \in 1..newTracks : gpc[i] \in {"process", "release"}})

\* C17 witness: three goroutines are inside processTrack while the others
\* wait for a slot.
C17_Witness ==
    /\ Cardinality(Processing) = 3 /\ newTracks > 3
    /\ Cardinality({i \in 1..newTracks : gpc[i] = "acquire"}) = newTracks - 3

\* The download requests issued so far.
Downloads == SelectSeq(requests, LAMBDA r : r.kind = "download")

\* The user a download request names: its path after the downloads prefix.
RequestedUser(r) == SubSeq(r.path, Len(Path_downloads) + 1, Len(r.path))

\* C18: SearchAndDownload issues a download request if and only if the
\* matcher returned a winner, at most one per call, and the request carries
\* the winner's Username, Filename and Size unmodified.
C18_DownloadIffWinner ==
    /\ Len(Downloads) <= 1
    /\ cpc = "returned" => (Len(Downloads) = 1 <=> (matcherCalls > 0 /\ ret # Nil))
    /\ \A i \in 1..Len(Downloads) :
           /\ ret # Nil
           /\ SubSeq(Downloads[i].path, 1, Len(Path_downloads)) = Path_downloads
           /\ RequestedUser(Downloads[i]) = ret.Username
           /\ Downloads[i].rawQuery = <<>>
           /\ Downloads[i].body = <<[filename |-> ret.Filename, size |-> ret.Size]>>

\* The words of the normalized query and of the normalized relevant file
\* name of a CalculateMatchScore call.
QueryWords == Fields(NormQuery)
CandidateWords == Fields(NormFilename)

\* The occurrences of query words among the candidate's words.
MatchingOccurrences ==
    LET qw == QueryWords
        cw == CandidateWords
    IN  {i \in 1..Len(cw) : \E k \in 1..Len(qw) : qw[k] = cw[i]}

\* base + seq + orig - penalty of the call, in hundredths times |queryWords|.
ClaimedRawScore ==
    LET qw == QueryWords
        nf == NormFilename
        n == Len(qw)
        matching == Cardinality(MatchingOccurrences)
        seq == IF matching > 1 /\ Contains(nf, JoinWith(qw, 32))
               THEN 20 * n ELSE 0
        orig == IF Contains(nf, Str_original) THEN 10 * n ELSE 0
        extra == Len(Fields(nf)) - matching
        penalty == IF extra - 3 > 0 THEN 2 * n * (extra - 3) ELSE 0
    IN  100 * matching + seq + orig - penalty

\* C22: for a non-empty normalized query that is no exact match the score is
\* base + seq + orig - penalty clamped once to [0, 1], with matching the
\* number of candidate word occurrences among the query words, base =
\* matching / |queryWords|, seq = 0.2 iff matching > 1 and the joined query
\* is a substring of the normalized candidate, orig = 0.1 iff the
\* normalized candidate contains "original", and penalty = 0.02 for every
\* non-matching candidate word beyond three.
C22_ScoreFormula ==
    (Done("CalculateMatchScore") /\ QueryWords # <<>> /\ NormQuery # NormFilename) =>
        LET den == 100 * Len(QueryWords)
            raw == ClaimedRawScore
        IN  /\ ret.Score.den = den
            /\ ret.Score.num = IF raw > den THEN den
                               ELSE IF raw < 0 THEN 0 ELSE raw

\* C22 witness: a repeated matching word takes the sum above 1 and the
\* score is clamped to 1.
C22_Witness ==
    /\ Done("CalculateMatchScore") /\ QueryWords # <<>> /\ NormQuery # NormFilename
    /\ Cardinality(MatchingOccurrences) > Len(QueryWords)
    /\ Cardinality(MatchingOccurrences)
           > Cardinality({CandidateWords[i] : i \in MatchingOccurrences})
    /\ ClaimedRawScore > 100 * Len(QueryWords)
    /\ ret.Score.num = ret.Score.den

\* The set of the words of the query of the call.
QueryWordSet == LET qw == QueryWords IN {qw[k] : k \in 1..Len(qw)}

\* The candidate path f has no word in the set qs.
SharesNoWord(f, qs) ==
    LET words == Fields(NormalizeString(extractRelevantFilename(f)))
    IN  \A i \in 1..Len(words) : words[i] \notin qs

\* C26: a candidate that shares no word with the query scores at most 0.1,
\* and FindBestMatch returns nil when no eligible candidate holds a word of
\* the query.
C26_NoSharedWordNoMatch ==
    /\ (Done("CalculateMatchScore") /\ SharesNoWord(filename, QueryWordSet)) =>
           10 * ret.Score.num <= ret.Score.den
    /\ (Done("FindBestMatch") /\ ret # Nil) =>
           LET qs == QueryWordSet
               eligible == EligibleResults
           IN  \E i \in 1..Len(eligible) : ~SharesNoWord(eligible[i].Filename, qs)

\* C26 witness: nil although an eligible candidate without a word of the
\* query has the original bonus, 0.1.
C26_Witness ==
    /\ Done("FindBestMatch") /\ ret = Nil /\ QueryWords # <<>>
    /\ \A i \in 1..Len(EligibleResults) :
           SharesNoWord(EligibleResults[i].Filename, QueryWordSet)
    /\ \E i \in 1..Len(scores) : 10 * scores[i].Score.num = scores[i].Score.den

\* C27: matchingWords lies between 0 and the number of candidate words, so
\* neither extraWords nor the penalty is negative.
C27_MatchingWordsBounded ==
    /\ (Done("CalculateMatchScore") /\ Len(ret.Reason) = 7) =>
           /\ 0 <= ret.Reason[6] /\ ret.Reason[6] <= Len(CandidateWords)
           /\ ret.Reason[5] >= 0
    /\ Done("FindBestMatch") =>
           \A i \in 1..Len(scores) :
               Len(scores[i].Reason) = 7 =>
                   /\ 0 <= scores[i].Reason[6]
                   /\ scores[i].Reason[5] >= 0

\* C27 witness: every candidate word matches, and a call with no match and
\* fewer than three candidate words has no penalty.
C27_Witness ==
    /\ Done("CalculateMatchScore") /\ Len(ret.Reason) = 7
    /\ ret.Reason[6] = Len(CandidateWords) /\ Len(CandidateWords) = 3
    /\ ret.Reason[5] = 0

Word_mp3 == <<109, 112, 51>>

\* The words of the normalized relevant file name of a candidate path.
WordsOf(f) == Fields(NormalizeString(extractRelevantFilename(f)))

\* words ends with the word "mp3".
EndsWithWordMP3(words) == words # <<>> /\ words[Len(words)] = Word_mp3

\* The occurrences of words of the set qs among all but the last of the
\* words: the matches that the extension has no part in.
MatchesBeforeExtension(words, qs) ==
    Cardinality({i \in 1..(Len(words) - 1) : words[i] \in qs})

\* The extension of the candidate of the given words is a word that does
\* not match: every score computed for the path counts the matches among
\* the words before it and at least one extra word.
ExtensionIsExtraWord(path, words, qs) ==
    \A j \in 1..Len(scores) :
        (scores[j].Filename = path /\ Len(scores[j].Reason) = 7) =>
            /\ scores[j].Reason[6] = MatchesBeforeExtension(words, qs)
            /\ Len(words) - scores[j].Reason[6] >= 1

\* The normalized text of every eligible candidate ends with the word
\* "mp3", an exact match needs a query that ends with it, and under the
\* condition always the extension is an extra word.
EligibleEndWithMP3(always) ==
    /\ LET mp3Results == FilterMP3Files(results)
           qs == QueryWordSet
       IN  \A i \in 1..Len(mp3Results) :
               LET words == WordsOf(mp3Results[i].Filename)
               IN  /\ EndsWithWordMP3(words)
                   /\ always => ExtensionIsExtraWord(mp3Results[i].Filename, words, qs)
    /\ (\E i \in 1..Len(scores) : scores[i].Reason = <<"exact match">>) =>
           LET qw == QueryWords IN EndsWithWordMP3(qw)

\* C28 as stated: the normalized text of every eligible candidate ends with
\* the word "mp3", the exact-match branch is taken within FindBestMatch only
\* for a query that ends with the word "mp3", and for every other query the
\* extension counts as one non-matching extra word.
C28_ExtensionNeverMatches ==
    Done("FindBestMatch") =>
        LET qw == QueryWords IN EligibleEndWithMP3(~EndsWithWordMP3(qw))

\* C28, amended: as above, with the extension counting as one non-matching
\* extra word for every query that does not hold the word "mp3" at all.
C28_ExtensionExtraUnlessInQuery ==
    Done("FindBestMatch") => EligibleEndWithMP3(Word_mp3 \notin QueryWordSet)

\* C28 witness: a query without the word "mp3" and a scored candidate with
\* a capital extension, of which a word matches and the extension does not.
C28_Witness ==
    /\ Done("FindBestMatch")
    /\ QueryWords # <<>> /\ Word_mp3 \notin QueryWordSet
    /\ \E i \in 1..Len(scores) :
           /\ Len(scores[i].Reason) = 7
           /\ scores[i].Reason[6]
                  = MatchesBeforeExtension(WordsOf(scores[i].Filename), QueryWordSet)
           /\ scores[i].Reason[6] >= 1
           /\ ~Contains(scores[i].Filename, Word_mp3)

\* The requests of one kind, in the order they were made.
RequestsOf(kind) == SelectSeq(requests, LAMBDA r : r.kind = kind)

\* The last status read says that the search is over.
ObservedComplete ==
    \/ status.Completed
    \/ status.State \in {"Completed", "TimedOut", "Completed, TimedOut", "Completed, Cancelled"}

\* SearchAndDownload has returned an error without a call of the matcher or
\* of DownloadFile.
FailedBeforeMatch(e) ==
    /\ cpc = "returned" /\ err = e
    /\ matcherCalls = 0 /\ RequestsOf("download") = <<>>

\* The steps of C24.
C24_Step ==
    /\ matcherCalls' > matcherCalls =>
           /\ Len(RequestsOf("search")) = 1
           /\ Len(RequestsOf("status")) >= 1 /\ ObservedComplete
           /\ Len(RequestsOf("responses")) = 1 /\ Len(results) > 0
           /\ requests[1].kind = "search"
           /\ requests[Len(requests)].kind = "responses"
    /\ cpc' = "download" => matcherCalls' = 1
    /\ cpc = "returned" => UNCHANGED vars
    /\ (cpc = "search" /\ cpc' # "wait") => FailedBeforeMatch("failed to start search")'
    /\ (cpc = "wait" /\ status'.State = "Cancelled") => FailedBeforeMatch("search failed")'
    /\ (cpc = "wait" /\ elapsed >= WaitTimeout) => FailedBeforeMatch("search failed")'
    /\ (cpc = "results" /\ cpc' # "match") =>
           \/ FailedBeforeMatch("failed to get search results")'
           \/ FailedBeforeMatch("no search results found")' /\ results' = <<>>
    /\ (cpc = "results" /\ Len(RequestsOf("responses"))' = 1 /\ results' = <<>>) =>
           /\ cpc' = "returned"
           /\ err' \in {"failed to get search results", "no search results found"}

ThroughSemaphore == {i \in 1..newTracks : gpc[i] \in {"wgDone", "exit"}}

\* Every pipeline of the check has finished: one processTrack call per
\* track, every goroutine through the semaphore and all slots free.
AllPipelinesFinished ==
    /\ \A i \in 1..newTracks : calls[i] = 1 /\ perr[i] # "" /\ gpc[i] = "exit"
    /\ ThroughSemaphore = 1..newTracks
    /\ semaphore = 0 /\ wg = 0

\* C25: in a check that found N >= 1 new tracks processTrack is started
\* exactly once per track, every goroutine takes a slot of the semaphore
\* and gives it back, checkForNewTracks returns only after all N pipelines
\* have finished, and it does return.
C25_EveryTrackOnceAndReturn ==
    /\ [](\A i \in 1..newTracks : calls[i] <= 1)
    /\ [](wpc = "returned" => AllPipelinesFinished)
    /\ <>(wpc = "returned")

\* C25 witness: a check of more tracks than there are slots has returned
\* with a processTrack call made for each.
C25_Witness ==
    /\ wpc = "returned" /\ newTracks > SemaphoreCap
    /\ AllPipelinesFinished

\* The wait before round k + 1: 1, 2, 4, 8, 16 and then 30 seconds.
RECURSIVE ClaimedWait(_)
ClaimedWait(k) ==
    IF k = 1 THEN 1
    ELSE IF 2 * ClaimedWait(k - 1) > 30 THEN 30 ELSE 2 * ClaimedWait(k - 1)

\* The rounds begun so far.
RoundsBegun == IF tried = 0 /\ kpc # "try" THEN 0 ELSE Len(slept) + 1

C23_Safe ==
    /\ RoundsBegun <= maxAttempts /\ tried <= 6 * maxAttempts
    /\ kpc = "try" => Len(slept) = attempt - 1
    /\ \A k \in 1..Len(slept) : slept[k] = ClaimedWait(k) /\ slept[k] <= 30
    /\ \A k \in 1..(Len(slept) - 1) : slept[k + 1] = 2 * slept[k] \/ slept[k + 1] = 30
    /\ answer \in {"200", "401", "403"} <=> (kpc = "returned" /\ connErr = "nil")
    /\ (kpc = "returned" /\ connErr # "nil") <=>
           /\ connErr = "failed to connect to Slskd"
           /\ RoundsBegun = maxAttempts /\ tried = 6 * maxAttempts
           /\ kpc # "try" /\ attempt = maxAttempts + 1
           /\ answer \notin {"200", "401", "403"}

\* C23: WaitForConnection(maxAttempts) ends after at most maxAttempts
\* rounds; the first round starts without a wait and every later one
\* after a wait of 1 s that doubles from round to round and stays at 30 s
\* or less; it returns nil at the first answer with status 200, 401 or 403
\* and an error exactly when all maxAttempts rounds went by without one.
C23_ConnectionRounds == []C23_Safe /\ <>(kpc = "returned")

\* C23 witness: the seventh round was waited for 30 seconds, after 16, and
\* its last endpoint answered 401.
C23_Witness ==
    /\ kpc = "returned" /\ connErr = "nil" /\ answer = "401"
    /\ Len(slept) = 6 /\ slept[5] = 16 /\ slept[6] = 30
    /\ tried = 42

\* The steps of C29.
C29_Step ==
    /\ lastCheck' >= lastCheck
    /\ lastCheck' # lastCheck =>
           /\ mpc = "update" /\ Len(batch) >= 1 /\ checkErr' # "failed to get new tracks"
           /\ lastCheck' = clock
    /\ (mpc = "fetch" /\ mpc' = "select") =>
           /\ lastCheck' = since
           /\ checkErr' # "nil" \/ batch' = <<>>
    /\ (mpc = "fetch" /\ mpc' # "fetch"
           /\ (checkErr' = "failed to get new tracks" \/ batch' = <<>>)) =>
           lastCheck' = lastCheck /\ mpc' = "select"

\* C29: checkForNewTracks changes lastCheck only in a call whose fetch
\* succeeded and returned at least one new track; a call whose fetch failed
\* or returned no new track leaves it as it was, and lastCheck never
\* decreases.
C29_LastCheckFrame == [][C29_Step]_vars

\* C29 witness: a check with new tracks has moved lastCheck, and a later
\* check whose fetch failed has returned with lastCheck as it found it.
C29_Witness ==
    /\ history # <<>> /\ lastCheck > 0
    /\ mpc = "select" /\ checkErr = "failed to get new tracks"
    /\ lastCheck = since

\* A processTrack call of the running check has failed.
FailedInCheck ==
    mpc = "process" /\ \E i \in 1..newTracks : perr[i] = "search and download failed"

\* The goroutines that wg.Wait still waits for, and those holding a slot.
Unfinished == {i \in 1..newTracks : gpc[i] \in {"acquire", "process", "release", "wgDone"}}
HoldingSlot == {i \in 1..newTracks : gpc[i] \in {"process", "release"}}

\* A failed call leaves the WaitGroup and the semaphore as a successful one
\* does, the check returns only with every track of it processed, and no
\* track is handed to processTrack in two checks.
C30_Safe ==
    /\ mpc = "process" => wg = Cardinality(Unfinished) /\ semaphore = Cardinality(HoldingSlot)
    /\ (mpc = "process" /\ wpc = "returned") =>
           \A i \in 1..newTracks : calls[i] = 1 /\ perr[i] # "" /\ gpc[i] = "exit"
    /\ \A k, l \in 1..Len(history) : history[k].id = history[l].id => k = l
    /\ \A k \in 1..Len(history) : history[k].calls = 1
    /\ mpc = "process" =>
           \A i \in 1..Len(batch), k \in 1..Len(history) : batch[i].id # history[k].id

\* The return of a check that processed tracks: nil, back to the select.
C30_Step ==
    (mpc = "process" /\ mpc' # "process") =>
        /\ mpc' = "select" /\ checkErr' = "nil"
        /\ Len(history') = Len(history) + Len(batch)

\* C30: when processTrack fails for a track, the other tracks of the check
\* are still processed to completion, checkForNewTracks returns nil and
\* the loop is back at its select for the next tick; no later check hands
\* the failed track to processTrack again.
C30_FailureIsolation ==
    /\ []C30_Safe
    /\ [][C30_Step]_vars
    /\ FailedInCheck ~> (mpc = "select" /\ checkErr = "nil")
    /\ (mpc = "select" /\ \E k \in 1..Len(history) : history[k].err # "nil")
           ~> (mpc \in {"check", "stopped"})

\* C30 witness: of two tracks of one check the first failed and the second
\* did not, and a later check has run and found nothing to do.
C30_Witness ==
    /\ Len(history) = 2
    /\ history[1].err = "search and download failed" /\ history[2].err = "nil"
    /\ mpc = "select" /\ checkErr = "nil" /\ batch = <<>>
    /\ since = lastCheck /\ lastCheck > 0

\* The track id has been handed to processTrack.
Handed(id) ==
    \/ \E k \in 1..Len(history) : history[k].id = id
    \/ mpc = "process" /\ \E i \in 1..Len(batch) : batch[i].id = id /\ calls[i] > 0

\* C21: as long as the loop is not shut down and no fetch of the playlist
\* fails, every track added to the playlist after the initial lastCheck
\* was set is handed to processTrack at some time.
C21_AddedTrackProcessed ==
    \/ <>(mpc = "stopped")
    \/ <>(checkErr = "failed to get new tracks")
    \/ \A id \in 1..MaxAdded : (id \in AddedIds) ~> Handed(id)

=============================================================================
